---------------------------- MODULE Spec2Model ----------------------------
(***************************************************************************)
(* MightyVariableFan: the beep-sequence modem.                             *)
(*                                                                         *)
(*   - detector  (src/pi_files/beepdetect.py): DetectionState, the main    *)
(*     loop of start_detecting and its queue of setduty requests;          *)
(*   - codec     (speed_to_sequence / seq_to_value);                       *)
(*   - encoder   (src/pwm_postprocessor.py): GCodeStreamer and main loop;  *)
(*   - lock file (create_lock_file and clean_exit of beepdetect.py);       *)
(*   - server    (src/pi_files/pwm_server.py): PWMController and GpioAPI.  *)
(*                                                                         *)
(* Units.  A duty cycle is held in hundredths of a percent (4444 stands    *)
(* for 44.44), which is exactly what round(x, 2) can tell apart.           *)
(***************************************************************************)
EXTENDS Integers, Sequences, FiniteSets, TLC

(***************************************************************************)
(* Program constants of the detector.                                      *)
(***************************************************************************)
SEQUENCE_LENGTH == 3
NUM_SIGNALS == 4
\* Mutant: a symbol is taken 6 frames after a reset already.
MutShortResetAge == 2 * SEQUENCE_LENGTH
MIN_RESET_AGE == 7
\* Mutant: a symbol may be seen in one window only ("signal_length > 1").
MutOneWindow == 2 - 1
MAX_SIGNAL_LENGTH == 4
MIN_GAP == 3
\* Mutant: two symbols may be at most 6 frames apart.
MutShortMaxGap == 2 * MIN_GAP
MAX_GAP == 9
\* Mutant: a sequence is complete after 6 frames of silence already.
MutShortEndSilence == MIN_GAP + 3
END_SILENCE == 8
MAX_WORKERS == 4
SAMPLING_RATE == 44100
NUM_SAMPLES == 1024
PWM_REQUEST_TIMEOUT == 4
RETRY_ATTEMPTS == 2
ENABLE_ATTEMPTS == 3

\* Python's None for current_sig_start and last_sig_end (frame numbers are >= 0).
None == -1

Symbols == 0 .. (NUM_SIGNALS - 1)

(***************************************************************************)
(* Bounds of the model.                                                    *)
(***************************************************************************)
\* Frames the free-input detector runs for without a reset.
MaxTime == 24
\* Longest leading silence the scripted player plays (at least END_SILENCE).
MaxPre == 9
\* Longest closing silence the scripted player plays.
MaxPost == 10
\* Longest run of one symbol in the single-blip script.
MaxRun == 6
\* request_countdown, the frames before a request's result is inspected:
\* int(round((timeout + 1) * 44100 / 1024)) in the code (215 for the default
\* timeout of 4 s), scaled down to just over the 27 frames from one detection to
\* the next, so that a request can still be queued when the next one is made.
RequestCountdown == 28
\* Frames of silence between two sequences beyond the shortest nominal silence.
MaxSlack == 3
\* Sequences the source of the detector with a PWM server plays.
MaxPlays == 2
\* Sequences the source that keeps time plays, one right after the other.
MaxBurst == 5
\* The largest --timeout option, in seconds, of the source that counts the frames.
MaxTimeoutOption == 2

VARIABLES
    \* DetectionState
    time_index, detected, current_sig_start, last_sig_end,
    \* start_detecting: locals of the main loop
    signals,          \* the signal bins over the threshold in the last frame
    harmonic,         \* whether harmonic_ratio > HARMONIC_FACTOR in the last frame
    duty,             \* what check_silence returned in the last frame
    last_bins,        \* the intensities of the 8 bins in the previous window
    total_bins,       \* last_bins plus the intensities in the current window
    server_ip,        \* options.ip is not empty: requests are made
    futures,          \* deque of the requests handed to the FuturesSession
    future_countdowns,\* deque of the frames left before each result is inspected
    attempts_left,
    current_duty,
    \* the PWM server: the requests it has received, in order of arrival
    received,
    \* history: the duty values the detector has produced, the number of requests
    \* issued, and the retries issued since the last detection
    emitted, issued, retries,
    \* history: the symbols the last frame threw away in a reset that produced no
    \* duty value
    dropped,
    \* the audio source feeding the detector
    script,
    \* the codec on its own: a fan speed, what speed_to_sequence makes of it and
    \* what seq_to_value makes of that
    codec,
    \* pwm_postprocessor.py: the GCodeStreamer object and the globals of the script
    gcode, set_fan_speed, current_layer_z, last_sequence, allow_split, no_process,
    \* the position of the script: "start", "main", "done" (exit 0), "failed" (exit 1)
    enc_pc,
    \* beepdetect.py started more than once: the contents of LOCK_FILE (None when
    \* there is no such file) and the processes
    lock_file, instances,
    \* pwm_server.py: the PWMController and the GpioAPI objects, and the last
    \* request with its response
    pwm

detVars == <<time_index, detected, current_sig_start, last_sig_end>>
loopVars == <<signals, harmonic, duty, last_bins, total_bins>>
httpVars == <<server_ip, futures, future_countdowns, attempts_left, current_duty,
              received, issued, retries>>
vars == <<time_index, detected, current_sig_start, last_sig_end,
          signals, harmonic, duty, last_bins, total_bins,
          server_ip, futures, future_countdowns, attempts_left, current_duty,
          received, emitted, issued, retries, dropped, script,
          codec, gcode, set_fan_speed, current_layer_z, last_sequence, allow_split,
          no_process, enc_pc, lock_file, instances, pwm>>
piVars == <<lock_file, instances, pwm>>
encVars == <<gcode, set_fan_speed, current_layer_z, last_sequence, allow_split,
             no_process, enc_pc>>
allDetVars == <<time_index, detected, current_sig_start, last_sig_end,
                signals, harmonic, duty, last_bins, total_bins,
                server_ip, futures, future_countdowns, attempts_left, current_duty,
                received, emitted, issued, retries, dropped, script>>

\* BUFFER_SIZE = 128, the lines the buffers of the streamer hold.
BUFFER_SIZE == 128

\* GCodeStreamer.__init__: xyzfd is [x, y, z, f, d].  The fields after seq_postponed are history,
\* not data of the object: generated counts the sequences made, file is the
\* whole input, and emissions lists, for every sequence the main loop injects
\* (with where the walk back ended, where the sequence was put, whether a move
\* was split for it and whether that was allowed, the speed that was set, the
\* speed of the event and the change of speed that follows it in the file),
\* the input line of the event, the scaled speed, the sequence and the value of
\* sequences_busy at the time, whether the event was a postponed one, whether
\* the end marker was near, the lead time asked for, the lead time achieved
\* and the lead times the buffer had to offer.  same_skipped counts the passes that end at
\* "sequence for new speed is same as before", and off_busy is the value of
\* sequences_busy when the off sequence of the end of the print is added.
\* postponements counts the times seq_postponed was raised, postponed_passes
\* the POSTPONED events handed to the main loop, and postponed_dropped the
\* times a new fan command cleared seq_postponed.  max_buffer is the max_buffer
\* of the constructor.
GCodeStreamer(in_file) ==
    [in_file |-> in_file, output |-> <<>>, buffer |-> <<>>, buffer_ahead |-> <<>>,
     xyzfd |-> [x |-> 0, y |-> 0, z |-> 0, f |-> 1, d |-> 0],
     end_of_print |-> FALSE, m126_7_found |-> FALSE, fan_override |-> None,
     sequences_busy |-> 0, sequence_time_left |-> 0, seq_postponed |-> FALSE,
     generated |-> 0, file |-> in_file, emissions |-> <<>>, same_skipped |-> 0,
     off_busy |-> None, postponements |-> 0, postponed_passes |-> 0,
     postponed_dropped |-> 0, max_buffer |-> BUFFER_SIZE]

\* The spectrum is not part of the run: the frames come as the set of signals
\* over the threshold and the outcome of the harmonic test.
BinsOff == last_bins = <<>> /\ total_bins = <<>>

\* The encoder is not part of the run.
EncoderOff ==
    /\ gcode = GCodeStreamer(<<>>)
    /\ set_fan_speed = 0
    /\ current_layer_z = 0
    /\ last_sequence = <<>>
    /\ allow_split = FALSE
    /\ no_process = FALSE
    /\ enc_pc = "off"

\* The codec is not part of the run.
CodecOff == codec = [pc |-> "off"]

\* No process of the Pi is part of the run.
ServerOff == pwm = [pc |-> "off"]

PiOff == lock_file = None /\ instances = <<>> /\ ServerOff

(***************************************************************************)
(* Pure helpers.                                                           *)
(***************************************************************************)
RECURSIVE Pow4(_)
Pow4(n) == IF n = 0 THEN 1 ELSE 4 * Pow4(n - 1)

\* seq_to_value: value += 4 ** i * sequence[-(i+1)] for i in range(len(sequence)).
RECURSIVE SeqToValueFrom(_, _)
SeqToValueFrom(sequence, i) ==
    IF i >= Len(sequence) THEN 0
    ELSE Pow4(i) * sequence[Len(sequence) - i] + SeqToValueFrom(sequence, i + 1)

seq_to_value(sequence) == SeqToValueFrom(sequence, 0)

\* round(float(value) * seq_scale_factor, 2) with seq_scale_factor =
\* 100.0 / (4**SEQUENCE_LENGTH - 1), in hundredths of a percent.  value * 10000 / 63
\* is never half-way between two integers (2 * value * 10000 is even, 63 * odd is
\* odd), so round-half-even and round-half-up give the same result and the float
\* error of about 1e-14 cannot move it.
DutyOf(value) ==
    LET den == Pow4(SEQUENCE_LENGTH) - 1
    IN  (2 * value * 10000 + den) \div (2 * den)

(***************************************************************************)
(* DetectionState.                                                         *)
(***************************************************************************)
DetState(t, d, c, l) ==
    [time_index |-> t, detected |-> d, current_sig_start |-> c, last_sig_end |-> l]

\* DetectionState.reset
ResetState == DetState(0, <<>>, None, None)

\* Python truth of current_sig_start: None and 0 are both false.
Truthy(x) == x # None /\ x # 0

\* What check_signal does once the signal is accepted (the last four lines).
AcceptSignal(st, signal_id) ==
    DetState(st.time_index,
             Append(st.detected, signal_id),
             IF st.current_sig_start = None THEN st.time_index
                                            ELSE st.current_sig_start,
             st.time_index)

\* Mutant: check_signal without the test on the number of signals held.
MutCheckSignalNoLength(st, signal_id) ==
    IF st.time_index < MIN_RESET_AGE
    THEN [st |-> ResetState, ret |-> FALSE]
    ELSE IF st.detected # <<>>
    THEN IF Truthy(st.current_sig_start) /\ signal_id = st.detected[Len(st.detected)]
         THEN LET signal_length == 1 + st.time_index - st.current_sig_start
              IN  IF signal_length > MAX_SIGNAL_LENGTH
                  THEN [st |-> ResetState, ret |-> FALSE]
                  ELSE [st |-> [st EXCEPT !.last_sig_end = st.time_index], ret |-> TRUE]
         ELSE LET t_since_last == st.time_index - st.last_sig_end
              IN  IF t_since_last < MIN_GAP \/ t_since_last > MAX_GAP
                  THEN [st |-> ResetState, ret |-> FALSE]
                  ELSE [st |-> AcceptSignal(st, signal_id), ret |-> TRUE]
    ELSE [st |-> AcceptSignal(st, signal_id), ret |-> TRUE]

\* Mutant: check_signal that takes a symbol no more than 8 frames after the last.
MutCheckSignalShortGap(st, signal_id) ==
    IF st.time_index < MIN_RESET_AGE
    THEN [st |-> ResetState, ret |-> FALSE]
    ELSE IF st.detected # <<>>
    THEN IF Truthy(st.current_sig_start) /\ signal_id = st.detected[Len(st.detected)]
         THEN LET signal_length == 1 + st.time_index - st.current_sig_start
              IN  IF signal_length > MAX_SIGNAL_LENGTH
                  THEN [st |-> ResetState, ret |-> FALSE]
                  ELSE [st |-> [st EXCEPT !.last_sig_end = st.time_index], ret |-> TRUE]
         ELSE LET t_since_last == st.time_index - st.last_sig_end
              IN  IF t_since_last < MIN_GAP \/ t_since_last > MAX_GAP - 1
                  THEN [st |-> ResetState, ret |-> FALSE]
                  ELSE IF Len(st.detected) > SEQUENCE_LENGTH - 1
                  THEN [st |-> ResetState, ret |-> FALSE]
                  ELSE [st |-> AcceptSignal(st, signal_id), ret |-> TRUE]
    ELSE [st |-> AcceptSignal(st, signal_id), ret |-> TRUE]

\* Mutant: check_signal that lets a symbol last 5 frames.
MutCheckSignalLong(st, signal_id) ==
    IF st.time_index < MIN_RESET_AGE
    THEN [st |-> ResetState, ret |-> FALSE]
    ELSE IF st.detected # <<>>
    THEN IF Truthy(st.current_sig_start) /\ signal_id = st.detected[Len(st.detected)]
         THEN LET signal_length == 1 + st.time_index - st.current_sig_start
              IN  IF signal_length > MAX_SIGNAL_LENGTH + 1
                  THEN [st |-> ResetState, ret |-> FALSE]
                  ELSE [st |-> [st EXCEPT !.last_sig_end = st.time_index], ret |-> TRUE]
         ELSE LET t_since_last == st.time_index - st.last_sig_end
              IN  IF t_since_last < MIN_GAP \/ t_since_last > MAX_GAP
                  THEN [st |-> ResetState, ret |-> FALSE]
                  ELSE IF Len(st.detected) > SEQUENCE_LENGTH - 1
                  THEN [st |-> ResetState, ret |-> FALSE]
                  ELSE [st |-> AcceptSignal(st, signal_id), ret |-> TRUE]
    ELSE [st |-> AcceptSignal(st, signal_id), ret |-> TRUE]

\* DetectionState.check_signal: [st |-> the new state, ret |-> its return value].
check_signal(st, signal_id) ==
    IF st.time_index < MIN_RESET_AGE
    THEN [st |-> ResetState, ret |-> FALSE]
    ELSE IF st.detected # <<>>
    THEN IF Truthy(st.current_sig_start) /\ signal_id = st.detected[Len(st.detected)]
         THEN LET signal_length == 1 + st.time_index - st.current_sig_start
              IN  IF signal_length > MAX_SIGNAL_LENGTH
                  THEN [st |-> ResetState, ret |-> FALSE]
                  ELSE [st |-> [st EXCEPT !.last_sig_end = st.time_index], ret |-> TRUE]
         ELSE LET t_since_last == st.time_index - st.last_sig_end
              IN  IF t_since_last < MIN_GAP \/ t_since_last > MAX_GAP
                  THEN [st |-> ResetState, ret |-> FALSE]
                  ELSE IF Len(st.detected) > SEQUENCE_LENGTH - 1
                  THEN [st |-> ResetState, ret |-> FALSE]
                  ELSE [st |-> AcceptSignal(st, signal_id), ret |-> TRUE]
    ELSE [st |-> AcceptSignal(st, signal_id), ret |-> TRUE]

\* The three kinds of value check_silence returns.
RetNone == [kind |-> "None", value |-> 0]
RetFalse == [kind |-> "False", value |-> 0]
RetDuty(d) == [kind |-> "duty", value |-> d]

\* Mutant: check_silence that never gives up on an incomplete sequence.
MutCheckSilenceNoDiscard(st) ==
    LET s1 == [st EXCEPT !.current_sig_start = None]
    IN  IF s1.detected = <<>>
        THEN [st |-> s1, ret |-> RetNone]
        ELSE LET t_since_last == s1.time_index - s1.last_sig_end
             IN  IF Len(s1.detected) = SEQUENCE_LENGTH /\ t_since_last >= END_SILENCE
                 THEN [st |-> ResetState,
                       ret |-> RetDuty(DutyOf(seq_to_value(s1.detected)))]
                 ELSE [st |-> s1, ret |-> RetNone]

\* Mutant: check_silence that gives up on an incomplete sequence a frame later.
MutCheckSilenceLate(st) ==
    LET s1 == [st EXCEPT !.current_sig_start = None]
    IN  IF s1.detected = <<>>
        THEN [st |-> s1, ret |-> RetNone]
        ELSE LET t_since_last == s1.time_index - s1.last_sig_end
             IN  IF Len(s1.detected) = SEQUENCE_LENGTH /\ t_since_last >= END_SILENCE
                 THEN [st |-> ResetState,
                       ret |-> RetDuty(DutyOf(seq_to_value(s1.detected)))]
                 ELSE IF Len(s1.detected) < SEQUENCE_LENGTH
                         /\ t_since_last > END_SILENCE + 1
                 THEN [st |-> ResetState, ret |-> RetFalse]
                 ELSE [st |-> s1, ret |-> RetNone]

\* DetectionState.check_silence: [st |-> the new state, ret |-> its return value].
check_silence(st) ==
    LET s1 == [st EXCEPT !.current_sig_start = None]
    IN  IF s1.detected = <<>>
        THEN [st |-> s1, ret |-> RetNone]
        ELSE LET t_since_last == s1.time_index - s1.last_sig_end
             IN  IF Len(s1.detected) = SEQUENCE_LENGTH /\ t_since_last >= END_SILENCE
                 THEN [st |-> ResetState,
                       ret |-> RetDuty(DutyOf(seq_to_value(s1.detected)))]
                 ELSE IF Len(s1.detected) < SEQUENCE_LENGTH /\ t_since_last > END_SILENCE
                 THEN [st |-> ResetState, ret |-> RetFalse]
                 ELSE [st |-> s1, ret |-> RetNone]

\* Mutant: a frame counts twice.
MutTimeIncrementTwice(st) == [st EXCEPT !.time_index = st.time_index + 2]
\* DetectionState.time_increment
time_increment(st) == [st EXCEPT !.time_index = st.time_index + 1]

(***************************************************************************)
(* start_detecting: what one pass of the main loop does to the detection   *)
(* state, given the signal bins over the threshold (sigs) and whether the  *)
(* sub-harmonic of the only signal is too strong (harm).                   *)
(* DETECT_CONTINUOUS is False, so that block is not part of the loop.      *)
(***************************************************************************)
TheSignal(sigs) == CHOOSE s \in sigs : TRUE

\* Mutant: with several signals present, the lowest one is taken as the symbol.
MutClassifyLowestSignal(st0, sigs, harm) ==
    LET st == time_increment(st0)
        lowest == CHOOSE s \in sigs : \A o \in sigs : s <= o
    IN  IF sigs = {}
        THEN check_silence(st)
        ELSE IF harm
        THEN [st |-> ResetState, ret |-> RetNone]
        ELSE [st |-> check_signal(st, lowest).st, ret |-> RetNone]

Classify(st0, sigs, harm) ==
    LET st == time_increment(st0)
    IN  IF Cardinality(sigs) # 1
        THEN check_silence(st)
        ELSE IF harm
        THEN [st |-> ResetState, ret |-> RetNone]
        ELSE [st |-> check_signal(st, TheSignal(sigs)).st, ret |-> RetNone]

CurState == DetState(time_index, detected, current_sig_start, last_sig_end)

(***************************************************************************)
(* The requests to the PWM server.  session.get hands a request to a pool  *)
(* of MAX_WORKERS threads and returns its future; a request is             *)
(*   "queued"    until a worker takes it,                                  *)
(*   "sending"   until the server has received it,                         *)
(*   "delivered" until the worker has the answer,                          *)
(*   "ok"        once it ended with status 200, and                        *)
(*   "fail"      once it ended with another status or a ConnectionError.   *)
(* id numbers the requests in the order in which they were issued.         *)
(***************************************************************************)
\* age counts the frames of audio a worker has spent on the request; only a source
\* that keeps time (AudioFrame) advances it.
Request(id, d, retry) ==
    [id |-> id, duty |-> d, retry |-> retry, st |-> "queued", age |-> 0]

Finished(req) == req.st \in {"ok", "fail"}

\* chunk_duration = NUM_SAMPLES / SAMPLING_RATE seconds, and
\* int(round(float(timeout + 1) / chunk_duration)): the nearest integer to
\* (timeout + 1) * SAMPLING_RATE / NUM_SAMPLES, the even one of two that are
\* equally near.
Rounded(num, den) ==
    LET q == num \div den
        twice == 2 * (num % den)
    IN  IF twice < den THEN q
        ELSE IF twice > den THEN q + 1
        ELSE IF q % 2 = 0 THEN q ELSE q + 1

\* Mutant: the countdown is rounded up.
MutCountdownOfCeil(timeout) ==
    ((timeout + 1) * SAMPLING_RATE + NUM_SAMPLES - 1) \div NUM_SAMPLES

CountdownOf(timeout) == Rounded((timeout + 1) * SAMPLING_RATE, NUM_SAMPLES)

\* request_countdown: that of the default timeout for the source that keeps time,
\* that of the --timeout option for the source that counts the frames, and the
\* short one of the model for the other sources.
request_countdown ==
    CASE script.kind = "burst" -> CountdownOf(PWM_REQUEST_TIMEOUT)
      [] script.kind = "timer" -> CountdownOf(script.timeout)
      [] OTHER -> RequestCountdown

\* [x - 1 for x in future_countdowns]
Decremented(cds) == [i \in DOMAIN cds |-> cds[i] - 1]

\* future.result() returns only once the request has ended: the loop waits for it.
ResultReady(futs, cds) ==
    (cds # <<>> /\ Decremented(cds)[1] < 1) => Finished(Head(futs))

\* Mutant: the retry test without "and not future_countdowns".
MutRetryEvenIfNewer(success, cds, att) == ~success /\ att # 0

\* The retry test: the request failed, no newer one is queued, attempts are left.
ShouldRetry(success, cds, att) == ~success /\ cds = <<>> /\ att # 0

\* "Check any previously created requests to the PWM server": the state of the
\* queue after that block.
CheckRequests(futs, cds, att, cur, n) ==
    LET same == [futures |-> futs, future_countdowns |-> cds, attempts_left |-> att,
                 issued |-> n, retried |-> FALSE]
    IN  IF cds = <<>> THEN same
        ELSE LET cds1 == Decremented(cds)
             IN  IF cds1[1] < 1
                 THEN LET success == Head(futs).st = "ok"
                          cds2 == Tail(cds1)
                          futs2 == Tail(futs)
                      IN  IF ShouldRetry(success, cds2, att)
                          THEN [futures |-> Append(futs2, Request(n + 1, cur, TRUE)),
                                future_countdowns |-> Append(cds2, request_countdown),
                                attempts_left |-> att - 1,
                                issued |-> n + 1, retried |-> TRUE]
                          ELSE [same EXCEPT !.futures = futs2,
                                            !.future_countdowns = cds2]
                 ELSE [same EXCEPT !.future_countdowns = cds1]

\* The deque of futures after one pass of the loop.
PassFutures(sigs, harm) ==
    LET r == Classify(CurState, sigs, harm)
        q == CheckRequests(futures, future_countdowns, attempts_left, current_duty,
                           issued)
    IN  IF r.ret.kind = "duty" /\ server_ip
        THEN Append(q.futures, Request(q.issued + 1, r.ret.value, FALSE))
        ELSE q.futures

\* One pass of the loop in start_detecting, but for what it does to futures.
LoopBody(sigs, harm) ==
    LET r == Classify(CurState, sigs, harm)
        q == CheckRequests(futures, future_countdowns, attempts_left, current_duty,
                           issued)
        dispatch == r.ret.kind = "duty" /\ server_ip
    IN  /\ ResultReady(futures, future_countdowns)
        /\ time_index' = r.st.time_index
        /\ detected' = r.st.detected
        /\ current_sig_start' = r.st.current_sig_start
        /\ last_sig_end' = r.st.last_sig_end
        /\ signals' = sigs
        /\ harmonic' = harm
        /\ duty' = r.ret
        /\ current_duty' = IF dispatch THEN r.ret.value ELSE current_duty
        /\ future_countdowns' =
              IF dispatch THEN Append(q.future_countdowns, request_countdown)
                          ELSE q.future_countdowns
        /\ attempts_left' = IF dispatch THEN RETRY_ATTEMPTS ELSE q.attempts_left
        /\ issued' = IF dispatch THEN q.issued + 1 ELSE q.issued
        /\ retries' = IF dispatch THEN 0
                      ELSE IF q.retried THEN retries + 1 ELSE retries
        /\ emitted' = IF r.ret.kind = "duty" /\ script.kind # "free"
                      THEN Append(emitted, r.ret.value) ELSE emitted
        /\ dropped' = IF r.st = ResetState /\ r.ret.kind # "duty"
                      THEN detected ELSE <<>>
        /\ UNCHANGED <<server_ip, received, codec, piVars, encVars>>

\* One pass of the loop in start_detecting.
LoopPass(sigs, harm) ==
    /\ LoopBody(sigs, harm)
    /\ futures' = PassFutures(sigs, harm)

(***************************************************************************)
(* The worker pool and the PWM server.                                     *)
(***************************************************************************)
Running(futs) == {i \in DOMAIN futs : futs[i].st \in {"sending", "delivered"}}

\* A free worker takes the request that has been queued the longest.
WorkerTake ==
    /\ \E i \in DOMAIN futures :
          /\ futures[i].st = "queued"
          /\ \A j \in 1 .. (i - 1) : futures[j].st # "queued"
          /\ Cardinality(Running(futures)) < MAX_WORKERS
          /\ futures' = [futures EXCEPT ![i].st = "sending"]
    /\ UNCHANGED <<detVars, loopVars, server_ip, future_countdowns, attempts_left,
                   current_duty, received, emitted, issued, retries, dropped, script,
                   codec, piVars, encVars>>

\* The PWM server receives a request a worker is sending.
ServerReceive ==
    /\ \E i \in DOMAIN futures :
          /\ futures[i].st = "sending"
          /\ futures' = [futures EXCEPT ![i].st = "delivered"]
          /\ received' = Append(received, [id |-> futures[i].id,
                                           duty |-> futures[i].duty])
    /\ UNCHANGED <<detVars, loopVars, server_ip, future_countdowns, attempts_left,
                   current_duty, emitted, issued, retries, dropped, script,
                   codec, piVars, encVars>>

\* A request ends: with status 200, with another status, or (also before it
\* reached the server) with a ConnectionError.
RequestEnd ==
    /\ \E i \in DOMAIN futures, res \in {"ok", "fail"} :
          /\ futures[i].st \in {"sending", "delivered"}
          /\ res = "ok" => futures[i].st = "delivered"
          /\ futures' = [futures EXCEPT ![i].st = res]
    /\ UNCHANGED <<detVars, loopVars, server_ip, future_countdowns, attempts_left,
                   current_duty, received, emitted, issued, retries, dropped, script,
                   codec, piVars, encVars>>

(***************************************************************************)
(* The detector on arbitrary audio: every frame may show any set of at     *)
(* most two signal bins, and a lone signal may be a harmonic.              *)
(***************************************************************************)
FrameInputs ==
    {<<s, h>> \in (SUBSET Symbols) \X BOOLEAN :
        /\ Cardinality(s) <= 2
        /\ h => Cardinality(s) = 1}

DetInit ==
    /\ time_index = 0
    /\ detected = <<>>
    /\ current_sig_start = None
    /\ last_sig_end = None
    /\ signals = {}
    /\ harmonic = FALSE
    /\ duty = RetNone
    /\ futures = <<>>
    /\ future_countdowns = <<>>
    /\ current_duty = None
    /\ received = <<>>
    /\ emitted = <<>>
    /\ issued = 0
    /\ retries = 0
    /\ dropped = <<>>

FreeFrame ==
    /\ time_index < MaxTime
    /\ \E in \in FrameInputs : LoopPass(in[1], in[2])
    /\ UNCHANGED <<script, last_bins, total_bins>>

\* options.ip is the empty string: no request is made, attempts_left stays 3.
NoServer == server_ip = FALSE /\ attempts_left = ENABLE_ATTEMPTS

InitDet ==
    /\ DetInit /\ BinsOff /\ NoServer /\ script = [kind |-> "free"]
    /\ CodecOff /\ EncoderOff /\ PiOff

NextDet == FreeFrame

SpecDet == InitDet /\ [][NextDet]_vars

(***************************************************************************)
(* The detector on a spectrum: every frame brings the intensities of the   *)
(* 4 signal bins and of the 4 bins at half their frequencies.  The loop    *)
(* adds them to those of the previous window before it compares them with  *)
(* the sensitivity and with each other.  Intensities are whole numbers;    *)
(* SIG_SCALES is held in tenths and HARMONIC_FACTOR as 13 / 10.            *)
(***************************************************************************)
SENSITIVITY == 20
SIG_SCALES == <<10, 18, 29, 36>>
TENTHS == 10
HARMONIC_FACTOR == 13

all_bin_indices == 0 .. (2 * NUM_SIGNALS - 1)
empty_bins == [i \in all_bin_indices |-> 0]

\* list(map(add, last_bins, current_bins))
AddBins(last, current) == [i \in all_bin_indices |-> last[i] + current[i]]

\* [i for i in sig_bin_indices if total_bins[i] * SIG_SCALES[i] > sensitivity]
SignalsOf(total) ==
    {i \in Symbols : total[i] * SIG_SCALES[i + 1] > TENTHS * SENSITIVITY}

\* Mutant: the signal is a harmonic as soon as the lower bin is as strong.
MutIsHarmonicNoFactor(total, signal) ==
    total[NUM_SIGNALS + signal] >= total[signal]

\* harmonic_ratio > HARMONIC_FACTOR, with
\* harmonic_ratio = total_bins[len(SIG_BINS) + signals[0]] / total_bins[signals[0]]
IsHarmonic(total, signal) ==
    TENTHS * total[NUM_SIGNALS + signal] > HARMONIC_FACTOR * total[signal]

\* The bounds of the spectra: the bins that carry sound, and the frames played.
MaxBin == 1
MaxBinTime == 12

\* A window with intensity a in signal bin s and h in the bin at half its
\* frequency.
Tone(s, a, h) ==
    [i \in all_bin_indices |->
        IF i = s THEN a ELSE IF i = NUM_SIGNALS + s THEN h ELSE 0]

\* The windows of the model: a signal that is absent, too weak for one window
\* (12) or strong (25), with or without sound at half its frequency (30); and
\* two strong signals at once.
BinFrames ==
    {Tone(s, a, h) : s \in 0 .. MaxBin, a \in {0, 12, 25}, h \in {0, 30}}
    \cup {AddBins(Tone(0, 25, 0), Tone(1, 25, 0))}

\* "last_bins = empty_bins[:]": after check_silence returned a value other than
\* None, and after check_signal returned False.
BinsCleared(st, sigs, harm) ==
    IF Cardinality(sigs) # 1
    THEN check_silence(st).ret.kind # "None"
    ELSE ~harm /\ ~check_signal(st, TheSignal(sigs)).ret

\* The pass of the loop once the signals are known.
BinsPassWith(current_bins, total, sigs, harm) ==
    /\ LoopPass(sigs, harm)
    /\ total_bins' = total
    /\ last_bins' = IF BinsCleared(time_increment(CurState), sigs, harm)
                    THEN empty_bins ELSE current_bins

BinsPassOn(current_bins, total, sigs) ==
    BinsPassWith(current_bins, total, sigs,
                 Cardinality(sigs) = 1 /\ IsHarmonic(total, TheSignal(sigs)))

\* One pass of the loop in start_detecting, from the intensities of the window.
BinsPass(current_bins) ==
    BinsPassOn(current_bins, AddBins(last_bins, current_bins),
               SignalsOf(AddBins(last_bins, current_bins)))

BinsFrame ==
    /\ time_index < MaxBinTime
    /\ \E current_bins \in BinFrames : BinsPass(current_bins)
    /\ UNCHANGED script

InitBins ==
    /\ DetInit
    /\ last_bins = empty_bins
    /\ total_bins = empty_bins
    /\ NoServer
    /\ script = [kind |-> "bins"]
    /\ CodecOff
    /\ PiOff
    /\ EncoderOff

NextBins == BinsFrame

SpecBins == InitBins /\ [][NextBins]_vars
(***************************************************************************)
(* The detector on a scripted audio source.                                *)
(*   nominal: a sequence as the encoder plays it: a leading silence, then  *)
(*            each symbol for 1 or 2 frames with 4 or 5 frames of silence  *)
(*            between symbols, then a closing silence;                     *)
(*   blip:    a leading silence, one symbol for a short run of frames,     *)
(*            then a closing silence;                                      *)
(*   trace:   a fixed list of frames, one of them with two signals.        *)
(* script.n counts the frames played in the current phase.                 *)
(***************************************************************************)
\* M300 S<freq> P20: a 20 ms beep is seen in at most 2 frames of 23.2 ms.
NomSymMax == 2
\* M300 S0 P100: 100 ms of silence is 4 or 5 frames.
NomGapMin == 4
NomGapMax == 5
\* M300 S0 P200: 200 ms of silence is at least 8 frames.
NomSilenceMin == 8
\* A blip starts at least 7 frames after the reset: 6 frames of silence come first.
BlipPreMin == 6

AllSequences == [1 .. SEQUENCE_LENGTH -> Symbols]

NominalScript(seq) ==
    [kind |-> "nominal", seq |-> seq, phase |-> "pre", k |-> 0, n |-> 0, run |-> 0]

BlipScript(s) ==
    [kind |-> "blip", seq |-> <<s>>, phase |-> "pre", k |-> 0, n |-> 0, run |-> 0]

\* S if cond holds, no choice otherwise.
When(cond, S) == IF cond THEN S ELSE {}

Move(sigs, next) == [sigs |-> sigs, next |-> next]

\* The frames the nominal source may play next.
NominalMoves(sc) ==
    LET silent(ph, n) == Move({}, [sc EXCEPT !.phase = ph, !.n = n])
        beep(k, n) == Move({sc.seq[k]},
                           [sc EXCEPT !.phase = "sym", !.k = k, !.n = n,
                                      !.run = IF n = 1 THEN 1 ELSE sc.run + 1])
    IN  CASE sc.phase = "pre" ->
               When(sc.n < MaxPre, {silent("pre", sc.n + 1)})
               \cup When(sc.n >= NomSilenceMin, {beep(1, 1)})
          [] sc.phase = "sym" ->
               When(sc.n < NomSymMax, {beep(sc.k, sc.n + 1)})
               \cup {silent(IF sc.k < SEQUENCE_LENGTH THEN "gap" ELSE "post", 1)}
          [] sc.phase = "gap" ->
               When(sc.n < NomGapMax, {silent("gap", sc.n + 1)})
               \cup When(sc.n >= NomGapMin, {beep(sc.k + 1, 1)})
          [] sc.phase = "post" ->
               When(sc.n < MaxPost, {silent("post", sc.n + 1)})

\* The frames the blip source may play next.
BlipMoves(sc) ==
    LET silent(ph, n) == Move({}, [sc EXCEPT !.phase = ph, !.n = n])
        beep(n) == Move({sc.seq[1]},
                        [sc EXCEPT !.phase = "sym", !.k = 1, !.n = n, !.run = n])
    IN  CASE sc.phase = "pre" ->
               When(sc.n < MaxPre, {silent("pre", sc.n + 1)})
               \cup When(sc.n >= BlipPreMin, {beep(1)})
          [] sc.phase = "sym" ->
               When(sc.n < MaxRun, {beep(sc.n + 1)})
               \cup {silent("post", 1)}
          [] sc.phase = "post" ->
               When(sc.n < MaxPost, {silent("post", sc.n + 1)})

\* The trace "........ 1 1 . . . (1&2) . . 3 . . . . . . . .": one set of signals
\* for every frame.
CollisionTrace ==
    [i \in 1 .. 8 |-> {}] \o <<{1}, {1}, {}, {}, {}, {1, 2}, {}, {}, {3}>>
    \o [i \in 1 .. 8 |-> {}]

\* script.k counts the frames of the trace that were played.
TraceScript ==
    [kind |-> "trace", seq |-> <<1, 3>>, phase |-> "trace", k |-> 0, n |-> 0,
     run |-> 0]

\* The frames of the trace in their order, and one more frame of silence.
TraceMoves(sc) ==
    When(sc.k <= Len(CollisionTrace),
         {Move(IF sc.k < Len(CollisionTrace) THEN CollisionTrace[sc.k + 1] ELSE {},
               [sc EXCEPT !.k = sc.k + 1])})

ScriptMoves(sc) ==
    CASE sc.kind = "nominal" -> NominalMoves(sc)
      [] sc.kind = "blip" -> BlipMoves(sc)
      [] sc.kind = "trace" -> TraceMoves(sc)

PlayFrame ==
    /\ \E m \in ScriptMoves(script) :
          /\ LoopPass(m.sigs, FALSE)
          /\ script' = m.next
          /\ UNCHANGED <<last_bins, total_bins>>

InitPlay ==
    /\ DetInit
    /\ BinsOff
    /\ NoServer
    /\ script \in {NominalScript(seq) : seq \in AllSequences}
                  \cup {BlipScript(s) : s \in Symbols}
                  \cup {TraceScript}
    /\ CodecOff
    /\ PiOff
    /\ EncoderOff

NextPlay == PlayFrame

SpecPlay == InitPlay /\ [][NextPlay]_vars

(***************************************************************************)
(* The detector with a PWM server, on a source that plays up to MaxPlays   *)
(* sequences with the shortest nominal timing (one frame per symbol, 4     *)
(* frames between symbols), 2 * NomSilenceMin frames of silence and up to   *)
(* MaxSlack more between two sequences, and a silence of up to MaxTail     *)
(* frames at the end, in which the requests and their retries are          *)
(* inspected.  With RequestCountdown at 28 the second sequence is detected *)
(* before, in the same frame as, or after the inspection of the first      *)
(* request.                                                                *)
(***************************************************************************)
PlaySeqs == {<<1, 3, 0>>, <<3, 3, 3>>}

MaxTail == 3 * RequestCountdown + 2

StreamScript(seq) ==
    [kind |-> "stream", seq |-> seq, phase |-> "pre", k |-> 0, n |-> 0, run |-> 0,
     plays |-> 1]

StreamMoves(sc) ==
    LET silent(ph, n) == Move({}, [sc EXCEPT !.phase = ph, !.n = n])
        beep(k) == Move({sc.seq[k]},
                        [sc EXCEPT !.phase = "sym", !.k = k, !.n = 1, !.run = 1])
        again(seq) == Move({seq[1]},
                           [sc EXCEPT !.phase = "sym", !.k = 1, !.n = 1, !.run = 1,
                                      !.seq = seq, !.plays = sc.plays + 1])
    IN  CASE sc.phase = "pre" ->
               IF sc.n < NomSilenceMin THEN {silent("pre", sc.n + 1)} ELSE {beep(1)}
          [] sc.phase = "sym" ->
               {silent(IF sc.k < SEQUENCE_LENGTH THEN "gap" ELSE "post", 1)}
          [] sc.phase = "gap" ->
               IF sc.n < NomGapMin THEN {silent("gap", sc.n + 1)} ELSE {beep(sc.k + 1)}
          [] sc.phase = "post" ->
               When(sc.n < MaxTail, {silent("post", sc.n + 1)})
               \cup When(/\ sc.n >= 2 * NomSilenceMin
                         /\ sc.n <= 2 * NomSilenceMin + MaxSlack
                         /\ sc.plays < MaxPlays,
                         {again(seq) : seq \in PlaySeqs})

StreamFrame ==
    \E m \in StreamMoves(script) :
        /\ LoopPass(m.sigs, FALSE)
        /\ script' = m.next
        /\ UNCHANGED <<last_bins, total_bins>>

\* The outcome of the loop that enables the server before the main loop starts:
\* it leaves attempts_left at 3, 2 or 1 when a request succeeded, and at 0 otherwise.
InitHttp ==
    /\ DetInit
    /\ BinsOff
    /\ server_ip = TRUE
    /\ attempts_left \in 0 .. ENABLE_ATTEMPTS
    /\ script \in {StreamScript(seq) : seq \in PlaySeqs}
    /\ CodecOff
    /\ PiOff
    /\ EncoderOff

NextHttp == StreamFrame \/ WorkerTake \/ ServerReceive \/ RequestEnd

SpecHttp == InitHttp /\ [][NextHttp]_vars

(***************************************************************************)
(* The detector with a PWM server on a source that keeps time.  The source *)
(* plays up to MaxBurst sequences as fast as the detector takes them, and  *)
(* then silence.  Audio time passes one frame at a time, for the workers   *)
(* as well: a request a worker has taken ends before more than             *)
(* TimeoutFrames frames have gone by (requests.get with timeout), and a    *)
(* free worker takes a queued request at once.  While the loop is inside   *)
(* future.result() the source plays on and the frames pile up in the       *)
(* stream's buffer: script.backlog counts them.                            *)
(***************************************************************************)
\* The whole frames of audio in the timeout of a request.
TimeoutFrames == (PWM_REQUEST_TIMEOUT * SAMPLING_RATE) \div NUM_SAMPLES

BurstTail == CountdownOf(PWM_REQUEST_TIMEOUT) + TimeoutFrames

BurstScript(seq) ==
    [kind |-> "burst", seq |-> seq, phase |-> "pre", k |-> 0, n |-> 0, run |-> 0,
     plays |-> 1, backlog |-> 0]

BurstMoves(sc) ==
    LET silent(ph, n) == Move({}, [sc EXCEPT !.phase = ph, !.n = n])
        beep(k) == Move({sc.seq[k]},
                        [sc EXCEPT !.phase = "sym", !.k = k, !.n = 1, !.run = 1])
        again == Move({sc.seq[1]},
                      [sc EXCEPT !.phase = "sym", !.k = 1, !.n = 1, !.run = 1,
                                 !.plays = sc.plays + 1])
    IN  CASE sc.phase = "pre" ->
               IF sc.n < NomSilenceMin THEN {silent("pre", sc.n + 1)} ELSE {beep(1)}
          [] sc.phase = "sym" ->
               {silent(IF sc.k < SEQUENCE_LENGTH THEN "gap" ELSE "post", 1)}
          [] sc.phase = "gap" ->
               IF sc.n < NomGapMin THEN {silent("gap", sc.n + 1)} ELSE {beep(sc.k + 1)}
          [] sc.phase = "post" ->
               IF sc.plays < MaxBurst
               THEN IF sc.n < 2 * NomSilenceMin THEN {silent("post", sc.n + 1)}
                    ELSE {again}
               ELSE When(sc.n < BurstTail, {silent("post", sc.n + 1)})

\* A worker has had its request for the whole timeout: the request ends now.
Overdue(futs) == \E i \in Running(futs) : futs[i].age >= TimeoutFrames

\* A request is queued and a worker is free: the worker takes it now.
WorkerFree(futs) ==
    /\ \E i \in DOMAIN futs : futs[i].st = "queued"
    /\ Cardinality(Running(futs)) < MAX_WORKERS

\* One more frame of audio has gone by for the workers.
Aged(futs) ==
    [i \in DOMAIN futs |->
        IF i \in Running(futs) THEN [futs[i] EXCEPT !.age = @ + 1] ELSE futs[i]]

\* The loop reads a frame and makes its pass.
BurstFrame ==
    /\ ~Overdue(futures)
    /\ ~WorkerFree(futures)
    /\ \E m \in BurstMoves(script) :
          /\ LoopBody(m.sigs, FALSE)
          /\ futures' = Aged(PassFutures(m.sigs, FALSE))
          /\ script' = m.next
          /\ UNCHANGED <<last_bins, total_bins>>

\* The loop is inside future.result(), and a frame of audio goes by unread.
BurstWait ==
    /\ ~Overdue(futures)
    /\ ~WorkerFree(futures)
    /\ ~ResultReady(futures, future_countdowns)
    /\ futures' = Aged(futures)
    /\ script' = [script EXCEPT !.backlog = @ + 1]
    /\ UNCHANGED <<detVars, loopVars, server_ip, future_countdowns, attempts_left,
                   current_duty, received, emitted, issued, retries, dropped,
                   codec, piVars, encVars>>

InitBurst ==
    /\ DetInit
    /\ BinsOff
    /\ server_ip = TRUE
    /\ attempts_left \in 0 .. ENABLE_ATTEMPTS
    /\ script = BurstScript(<<1, 3, 0>>)
    /\ CodecOff
    /\ PiOff
    /\ EncoderOff

\* The requests the step changes.
Touched == {i \in DOMAIN futures : futures'[i].st # futures[i].st}

\* The server is slow: a request reaches it within the frame in which a worker
\* took it, or not at all, and ends when its timeout is about to expire.
BurstReceive == ServerReceive /\ \A i \in Touched : futures[i].age = 0

BurstEnd == RequestEnd /\ \A i \in Touched : futures[i].age >= TimeoutFrames

NextBurst == BurstFrame \/ BurstWait \/ WorkerTake \/ BurstReceive \/ BurstEnd

SpecBurst == InitBurst /\ [][NextBurst]_vars

(***************************************************************************)
(* The detector started with --timeout 0 .. MaxTimeoutOption on a source   *)
(* that plays one sequence and then silence.  script.since counts the      *)
(* passes of the loop since the one that issued the first request, and     *)
(* script.inspected is the number of passes after which the result of that *)
(* request was inspected.                                                  *)
(***************************************************************************)
TimerScript(timeout) ==
    [kind |-> "timer", seq |-> <<1, 3, 0>>, phase |-> "pre", k |-> 0, n |-> 0,
     run |-> 0, timeout |-> timeout, since |-> None, inspected |-> None]

TimerMoves(sc) ==
    LET silent(ph, n) == Move({}, [sc EXCEPT !.phase = ph, !.n = n])
        beep(k) == Move({sc.seq[k]},
                        [sc EXCEPT !.phase = "sym", !.k = k, !.n = 1, !.run = 1])
    IN  CASE sc.phase = "pre" ->
               IF sc.n < NomSilenceMin THEN {silent("pre", sc.n + 1)} ELSE {beep(1)}
          [] sc.phase = "sym" ->
               {silent(IF sc.k < SEQUENCE_LENGTH THEN "gap" ELSE "post", 1)}
          [] sc.phase = "gap" ->
               IF sc.n < NomGapMin THEN {silent("gap", sc.n + 1)} ELSE {beep(sc.k + 1)}
          [] sc.phase = "post" ->
               When(sc.n < 2 * END_SILENCE + CountdownOf(sc.timeout),
                    {silent("post", sc.n + 1)})

\* The pass that is due pops the first request issued and inspects its result.
InspectsFirst ==
    /\ future_countdowns # <<>>
    /\ Decremented(future_countdowns)[1] < 1
    /\ Head(futures).id = 1

TimerFrame ==
    \E m \in TimerMoves(script) :
        /\ LoopPass(m.sigs, FALSE)
        /\ script' = [m.next EXCEPT
                         !.since = IF issued = 0 /\ issued' = 1 THEN 0
                                   ELSE IF @ = None THEN None ELSE @ + 1,
                         !.inspected = IF InspectsFirst THEN script.since + 1 ELSE @]
        /\ UNCHANGED <<last_bins, total_bins>>

InitTimer ==
    /\ DetInit
    /\ BinsOff
    /\ server_ip = TRUE
    /\ attempts_left \in 0 .. ENABLE_ATTEMPTS
    /\ script \in {TimerScript(timeout) : timeout \in 0 .. MaxTimeoutOption}
    /\ CodecOff
    /\ PiOff
    /\ EncoderOff

NextTimer == TimerFrame \/ WorkerTake \/ ServerReceive \/ RequestEnd

SpecTimer == InitTimer /\ [][NextTimer]_vars

(***************************************************************************)
(* The encoder, src/pwm_postprocessor.py.                                  *)
(*                                                                         *)
(* Units.  Times are in milliseconds, X, Y and Z in micrometres, E in      *)
(* 1/100000 mm (the "{:.3f}" and "{:.5f}" of split_move), feedrates in     *)
(* mm/min.  The ramp-up scale is a fraction with denominator SCALE_DEN,    *)
(* and a scaled fan speed is the product of an M106 S value and the        *)
(* numerator of its scale.  The floats of the script are exact on the      *)
(* inputs of the model, whose moves take a whole number of milliseconds.   *)
(***************************************************************************)
\* RAMP_UP_ZMAX = 4.0 mm; RAMP_UP_SCALE0 = 0.05, in twentieths here.
RAMP_UP_ZMAX == 4000
RAMP_UP_SCALE0 == 1
TWENTIETHS == 20
SCALE_DEN == TWENTIETHS * RAMP_UP_ZMAX
\* LEAD_TIME = 1.3 s
LEAD_TIME == 1300
FEED_FACTOR == 60
FEED_LIMIT_Z == 1170
\* "if new_z >= xyzfd2[2] + 0.2"
VASE_LAYER == 200
\* 1.2 * (0.4 + SEQUENCE_LENGTH * 0.02 + (SEQUENCE_LENGTH - 1) * 0.1) s
SEQUENCE_DURATION == (12 * (400 + SEQUENCE_LENGTH * 20 + (SEQUENCE_LENGTH - 1) * 100)) \div 10
\* "if ahead_fan_time < 0.04", "if ahead_fan_time > 1.5", the_end_is_near(16)
SHORT_TIME == 40
AHEAD_TIME == 1500
HOW_NEAR == 16
\* M106 S255 is full speed.
FULL_SPEED == 255

SIGNAL_FREQS == <<5988, 6452, 6944, 7407>>

Abs(a) == IF a < 0 THEN 0 - a ELSE a
Min(a, b) == IF a <= b THEN a ELSE b
Last(s) == s[Len(s)]
Front(s) == SubSeq(s, 1, Len(s) - 1)

\* Python 3's round() of num / den, for num >= 0 and den > 0: half to even.
RoundHalfEven(num, den) ==
    LET q == num \div den
        r == num % den
    IN  IF 2 * r < den THEN q
        ELSE IF 2 * r > den THEN q + 1
        ELSE IF q % 2 = 0 THEN q ELSE q + 1

RECURSIVE Digits(_)
\* The first loop of speed_to_sequence: appendleft(quantized % 4) while quantized.
Digits(quantized) ==
    IF quantized = 0 THEN <<>>
    ELSE LET quad == quantized % 4
         IN  Append(Digits((quantized - quad) \div 4), quad)

RECURSIVE PadLeft(_)
\* The second loop of speed_to_sequence: appendleft(0) while the list is short.
PadLeft(sequence) ==
    IF Len(sequence) < SEQUENCE_LENGTH THEN PadLeft(<<0>> \o sequence) ELSE sequence

\* Mutant: int() without round().
MutQuantizedTruncated(speed) ==
    (speed * (Pow4(SEQUENCE_LENGTH) - 1)) \div (FULL_SPEED * SCALE_DEN)

\* int(round(speed / 255.0 * (4**SEQUENCE_LENGTH - 1))), speed in 1/SCALE_DEN.
Quantized(speed) ==
    RoundHalfEven(speed * (Pow4(SEQUENCE_LENGTH) - 1), FULL_SPEED * SCALE_DEN)

\* Mutant: the zeros are added after the digits.
MutSpeedToSequencePadRight(speed) ==
    LET d == Digits(Quantized(speed))
    IN  d \o [i \in 1 .. (SEQUENCE_LENGTH - Len(d)) |-> 0]

speed_to_sequence(speed) == PadLeft(Digits(Quantized(speed)))

\* A line "M300 S<s> P<p>" of a beep sequence; note is what follows the ";":
\* "start" for "<comment> -> sequence <digits>", "end" for "end sequence".
\* gen is not in the text: it numbers the sequences in the order they are made.
\* The comment of a sequence: "fan off" or "fan PWM ...", with " (layer change)"
\* and ", no backtrack" where the main loop adds them.
Comment(text, layer_change, no_backtrack) ==
    [text |-> text, layer_change |-> layer_change, no_backtrack |-> no_backtrack]

NoComment == Comment("", FALSE, FALSE)

M300(s, p, note, comment, sequence) ==
    [kind |-> "M300", s |-> s, p |-> p, note |-> note, comment |-> comment,
     sequence |-> sequence, gen |-> 0]

RECURSIVE MutBeepsGapAfterEach(_, _)
\* Mutant: a silence of 100 ms follows the last beep as well.
MutBeepsGapAfterEach(sequence, i) ==
    IF i > Len(sequence) THEN <<>>
    ELSE <<M300(SIGNAL_FREQS[sequence[i] + 1], 20, "", NoComment, <<>>),
           M300(0, 100, "", NoComment, <<>>)>>
         \o MutBeepsGapAfterEach(sequence, i + 1)

RECURSIVE Beeps(_, _)
\* The loop of sequence_to_m300_commands over the symbols from the i-th on.
Beeps(sequence, i) ==
    IF i > Len(sequence) THEN <<>>
    ELSE <<M300(SIGNAL_FREQS[sequence[i] + 1], 20, "", NoComment, <<>>)>>
         \o (IF i < Len(sequence) THEN <<M300(0, 100, "", NoComment, <<>>)>> ELSE <<>>)
         \o Beeps(sequence, i + 1)

sequence_to_m300_commands(sequence, comment) ==
    <<M300(0, 200, "start", comment, sequence)>>
    \o Beeps(sequence, 1)
    \o <<M300(0, 200, "end", NoComment, <<>>)>>

\* data[0] == "M300 S0 P200; end sequence"
IsEndSequence(line) == line.kind = "M300" /\ line.note = "end"

off_sequence == speed_to_sequence(0)
off_commands == sequence_to_m300_commands(off_sequence, Comment("fan off", FALSE, FALSE))

\* The commands of the k-th sequence made.
Numbered(commands, k) == [i \in DOMAIN commands |-> [commands[i] EXCEPT !.gen = k]]

\* ramp_up_scale: min(1.0, layer_z * (1.0 - scale0) / zmax + scale0), times SCALE_DEN.
ramp_up_scale(layer_z) ==
    Min(SCALE_DEN,
        layer_z * (TWENTIETHS - RAMP_UP_SCALE0) + RAMP_UP_SCALE0 * RAMP_UP_ZMAX)

(***************************************************************************)
(* The lines of a G-code file.  n is the number of the line in the input   *)
(* file; an absent word of a G1 line is None.                              *)
(*   BODY   a line with "@body"                                            *)
(*   END    a line that starts with END_MARKER                             *)
(*   G1     a move: "G1 [Z<z>] [X<x>] [Y<y>] [E<e>] [F<f>]"                *)
(*   FAN    "M107", "M106" or "M106 S<s>"                                  *)
(*   OTHER  any other line                                                 *)
(***************************************************************************)
BodyLine(n) == [kind |-> "BODY", n |-> n]
EndLine(n) == [kind |-> "END", n |-> n]
OtherLine(n) == [kind |-> "OTHER", n |-> n]
G1Line(n, x, y, z, e, f) ==
    [kind |-> "G1", n |-> n, x |-> x, y |-> y, z |-> z, e |-> e, f |-> f,
     split |-> FALSE]
FanLine(n, cmd, s) == [kind |-> "FAN", n |-> n, cmd |-> cmd, s |-> s]
Postponed == [kind |-> "POSTPONED"]
ParamsLine == [kind |-> "PARAMS"]

\* A buffer item: the tuple (line, z, duty_cycle, time_estimate).
Item(line, z, fan, t) == [line |-> line, z |-> z, fan |-> fan, t |-> t]

Lines(buf) == [i \in DOMAIN buf |-> buf[i].line]

\* math.hypot, for the moves along one axis that the input files hold.
Hypot(dx, dy) == IF dy = 0 THEN Abs(dx) ELSE Abs(dy)

\* GCodeStreamer._update_print_state: [xyzfd |-> the new state, time |-> the estimate].
update_print_state(xyzfd, line) ==
    LET found_x == line.x # None
        found_y == line.y # None
        found_z == line.z # None
        found_f == line.f # None
        z2 == IF found_z
              THEN IF found_x \/ found_y
                   THEN IF line.z >= xyzfd.z + VASE_LAYER THEN line.z ELSE xyzfd.z
                   ELSE line.z
              ELSE xyzfd.z
        x2 == IF found_x THEN line.x ELSE xyzfd.x
        y2 == IF found_y THEN line.y ELSE xyzfd.y
        f2 == IF found_f THEN line.f ELSE xyzfd.f
        time_estimate ==
            IF found_x \/ found_y
            THEN (Hypot(x2 - xyzfd.x, y2 - xyzfd.y) * FEED_FACTOR) \div f2
            ELSE IF found_z
            THEN (Abs(z2 - xyzfd.z) * FEED_FACTOR) \div Min(f2, FEED_LIMIT_Z)
            ELSE IF line.e # None
            THEN (Abs(line.e) * FEED_FACTOR) \div (100 * f2)
            ELSE 0
    IN  [xyzfd |-> [x |-> x2, y |-> y2, z |-> z2, f |-> f2, d |-> xyzfd.d],
         time |-> time_estimate]

RECURSIVE Flushed(_)
\* "while len(self.buffer) > self.max_buffer: print(self.buffer.popleft()[0])"
Flushed(g) ==
    IF Len(g.buffer) > g.max_buffer
    THEN Flushed([g EXCEPT !.output = Append(@, Head(g.buffer).line),
                           !.buffer = Tail(@)])
    ELSE g

\* The duty cycle a line sets, for a line that is not a move, M126, M127 or END.
DutyCycleOf(line, d) ==
    IF line.kind = "FAN"
    THEN IF line.cmd = "M106" /\ line.s # None THEN line.s ELSE 0
    ELSE d

\* The end of _read_next_line: the item goes to one of the buffers, and
\* EndOfPrint is raised if the line was the end marker.
StoreItem(g, item, ahead) ==
    [g |-> IF ahead THEN [g EXCEPT !.buffer_ahead = Append(@, item)]
                    ELSE Flushed([g EXCEPT !.buffer = Append(@, item)]),
     exc |-> IF g.end_of_print THEN "EndOfPrint" ELSE ""]

\* _read_next_line for a G1 line, with what _update_print_state made of it.
ReadMove(g, line, ups, ahead) ==
    StoreItem([g EXCEPT !.in_file = Tail(@), !.xyzfd = ups.xyzfd],
              Item(line, ups.xyzfd.z, g.xyzfd.d, ups.time),
              ahead)

\* _read_next_line for any other line, with the duty cycle after it.
ReadOther(g, line, duty_cycle, ahead) ==
    StoreItem([g EXCEPT !.in_file = Tail(@),
                        !.xyzfd.d = duty_cycle,
                        !.m126_7_found = @ \/ line.kind = "M126",
                        !.end_of_print = line.kind = "END"],
              Item(line, g.xyzfd.z, duty_cycle, 0),
              ahead)

\* GCodeStreamer._read_next_line: [g |-> the new state, exc |-> the exception
\* raised, "" for none].
read_next_line(g, ahead) ==
    IF g.end_of_print THEN [g |-> g, exc |-> "EndOfPrint"]
    ELSE IF g.in_file = <<>> THEN [g |-> g, exc |-> "EOFError"]
    ELSE IF Head(g.in_file).kind = "G1"
    THEN ReadMove(g, Head(g.in_file), update_print_state(g.xyzfd, Head(g.in_file)),
                  ahead)
    ELSE IF Head(g.in_file).kind \in {"M126", "END"}
    THEN ReadOther(g, Head(g.in_file), g.xyzfd.d, ahead)
    ELSE ReadOther(g, Head(g.in_file), DutyCycleOf(Head(g.in_file), g.xyzfd.d), ahead)

\* GCodeStreamer._get_next_ahead
get_next_ahead(g) ==
    [g |-> [g EXCEPT !.buffer = Append(@, Head(g.buffer_ahead)),
                     !.buffer_ahead = Tail(@)],
     exc |-> IF Len(g.buffer_ahead) = 1 /\ g.end_of_print THEN "EndOfPrint" ELSE ""]

RECURSIVE TopUp(_, _)

\* The result of TopUp(g, count) given what reading one line made of g.
TopUpFrom(r, count) == IF r.exc # "" THEN r.g ELSE TopUp(r.g, count - 1)

\* "for _ in range(look_ahead - len(self.buffer_ahead)): self._read_next_line(True)"
\* inside "try ... except (EOFError, EndOfPrint): pass".
TopUp(g, count) ==
    IF count <= 0 THEN g ELSE TopUpFrom(read_next_line(g, TRUE), count)

\* SequenceClock without "if self.seq_postponed: self.seq_postponed = False"
\* under "if last_fan != self.buffer[-1][2]".
MutSequenceClockNoDrop(g, fan_command) ==
    LET left == g.sequence_time_left - Last(g.buffer).t
    IN  IF g.sequences_busy # 0 /\ left <= 0
        THEN [g |-> [g EXCEPT !.seq_postponed = FALSE,
                              !.sequences_busy = @ - 1,
                              !.sequence_time_left =
                                  IF g.sequences_busy - 1 # 0
                                  THEN left + SEQUENCE_DURATION ELSE left],
              postponed_event |-> g.seq_postponed]
        ELSE [g |-> [g EXCEPT !.sequence_time_left =
                                  IF g.sequences_busy # 0 THEN left ELSE @],
              postponed_event |-> FALSE]

\* "if self.sequences_busy: ..." of get_next_event, for the line just read:
\* [g |-> the new state, postponed_event |-> the local of that name].
SequenceClock(g, fan_command) ==
    LET postponed == g.seq_postponed /\ ~fan_command
        left == g.sequence_time_left - Last(g.buffer).t
    IN  IF g.sequences_busy # 0 /\ left <= 0
        THEN [g |-> [g EXCEPT !.seq_postponed = FALSE,
                              !.postponed_dropped =
                                  IF g.seq_postponed /\ fan_command THEN @ + 1 ELSE @,
                              !.sequences_busy = @ - 1,
                              !.sequence_time_left =
                                  IF g.sequences_busy - 1 # 0
                                  THEN left + SEQUENCE_DURATION ELSE left],
              postponed_event |-> postponed]
        ELSE [g |-> [g EXCEPT !.seq_postponed = postponed,
                              !.postponed_dropped =
                                  IF g.seq_postponed /\ fan_command THEN @ + 1 ELSE @,
                              !.sequence_time_left =
                                  IF g.sequences_busy # 0 THEN left ELSE @],
              postponed_event |-> FALSE]

RECURSIVE EventLoop(_, _, _, _)

\* The end of a pass of the loop of get_next_event in which something
\* interesting happened, with the look-ahead buffer topped up.
EventFound(g, apparent_layer_change, postponed_event, last_z, last_fan, look_ahead) ==
    IF /\ apparent_layer_change
       /\ Len(g.buffer_ahead) > 2
       /\ g.buffer_ahead[3].z = last_z
    THEN EventLoop(g, last_z, last_fan, look_ahead)
    ELSE [g |-> IF postponed_event
                THEN [g EXCEPT !.buffer =
                         Append(@, Item(Postponed, Last(g.buffer).z,
                                        Last(g.buffer).fan, 0)),
                               !.postponed_passes = @ + 1]
                ELSE g,
          exc |-> ""]

\* A pass of the loop of get_next_event once the sequences' clock has run.
EventCheck(c, fan_command, last_z, last_fan, look_ahead) ==
    IF \/ fan_command
       \/ Last(c.g.buffer).z # last_z /\ ~c.postponed_event
       \/ c.postponed_event
    THEN EventFound(TopUp(c.g, look_ahead - Len(c.g.buffer_ahead)),
                    Last(c.g.buffer).z # last_z /\ ~c.postponed_event,
                    c.postponed_event, last_z, last_fan, look_ahead)
    ELSE EventLoop(c.g, last_z, last_fan, look_ahead)

\* A pass of the loop of get_next_event once the next line is in the buffer.
EventRead(r, last_z, last_fan, look_ahead) ==
    IF r.exc # "" THEN r
    ELSE EventCheck(SequenceClock(r.g, last_fan # Last(r.g.buffer).fan),
                    last_fan # Last(r.g.buffer).fan, last_z, last_fan, look_ahead)

\* The "while True" of get_next_event.
EventLoop(g, last_z, last_fan, look_ahead) ==
    EventRead(IF g.buffer_ahead # <<>> THEN get_next_ahead(g)
                                       ELSE read_next_line(g, FALSE),
              last_z, last_fan, look_ahead)

\* GCodeStreamer.get_next_event
get_next_event(g, look_ahead) ==
    IF g.buffer # <<>>
    THEN EventLoop([g EXCEPT !.fan_override = None],
                   Last(g.buffer).z,
                   IF g.fan_override = None THEN Last(g.buffer).fan ELSE g.fan_override,
                   look_ahead)
    ELSE EventLoop(g, 0, 0, look_ahead)

\* GCodeStreamer.the_end_is_near
the_end_is_near(g, how_near) ==
    /\ g.end_of_print
    /\ \/ g.buffer # <<>> /\ Last(g.buffer).line.kind = "END"
       \/ \E i \in 1 .. Min(IF how_near = 0 THEN BUFFER_SIZE \div 8 ELSE how_near,
                            Len(g.buffer_ahead)) :
             g.buffer_ahead[i].line.kind = "END"

\* GCodeStreamer.pop
pop(g) == [g EXCEPT !.buffer = Front(@)]

\* GCodeStreamer.append_buffer: times is <<>> for "times=None".
append_buffer(buffer, lines, times) ==
    LET last_z == IF buffer # <<>> THEN Last(buffer).z ELSE 0
        last_s == IF buffer # <<>> THEN Last(buffer).fan ELSE 0
    IN  buffer \o [i \in DOMAIN lines |->
                      Item(lines[i], last_z, last_s,
                           IF times = <<>> THEN 0 ELSE times[i])]

\* GCodeStreamer.insert_buffer: pos counts the items before the place.
insert_buffer(buffer, pos, lines, times, replace) ==
    IF buffer = <<>> \/ pos >= Len(buffer)
    THEN append_buffer(buffer, lines, times)
    ELSE LET previous == IF Len(lines) = 1
                         THEN IF replace \/ pos = 0 THEN buffer[pos + 1] ELSE buffer[pos]
                         ELSE IF pos > 0 THEN buffer[pos] ELSE buffer[1]
             data == [i \in DOMAIN lines |->
                         Item(lines[i], previous.z, previous.fan,
                              IF times = <<>> THEN 0 ELSE times[i])]
         IN  SubSeq(buffer, 1, pos) \o data
             \o SubSeq(buffer, IF replace THEN pos + 2 ELSE pos + 1, Len(buffer))

\* parse_xy: only a move has X or Y words in the files of the model.
ParseX(line) == IF line.kind = "G1" THEN line.x ELSE None
ParseY(line) == IF line.kind = "G1" THEN line.y ELSE None

RECURSIVE PreviousXY(_, _, _, _)
\* The loop of find_previous_xy from item i down, with what was found so far.
PreviousXY(buffer, i, found_x, found_y) ==
    IF i < 1 THEN [x |-> found_x, y |-> found_y]
    ELSE LET x == ParseX(buffer[i].line)
             y == ParseY(buffer[i].line)
             fx == IF x # None THEN x ELSE found_x
         IN  IF x # None /\ found_y # None THEN [x |-> fx, y |-> found_y]
             ELSE LET fy == IF y # None THEN y ELSE found_y
                  IN  IF y # None /\ fx # None THEN [x |-> fx, y |-> fy]
                      ELSE PreviousXY(buffer, i - 1, fx, fy)

\* GCodeStreamer.find_previous_xy: None in x or y stands for the result None.
find_previous_xy(buffer, position) == PreviousXY(buffer, position, None, None)

\* start + fraction * move with fraction = 1 - time2 / t, to 3 decimals.
MidPoint(start, end, t, time2) ==
    RoundHalfEven(start * t + (t - time2) * (end - start), t)

\* The two lines split_move makes of a move: the first keeps the Z, F and comment
\* of the move and ends at the point in between, the second ends where the move
\* ended; they share the E of the move in proportion to their times.
SplitLines(line, start_xy, end_x, end_y, t, time2) ==
    <<[line EXCEPT !.x = MidPoint(start_xy.x, end_x, t, time2),
                   !.y = MidPoint(start_xy.y, end_y, t, time2),
                   !.e = IF line.e # None /\ line.e # 0
                         THEN RoundHalfEven((t - time2) * line.e, t) ELSE None],
      [line EXCEPT !.x = end_x,
                   !.y = end_y,
                   !.e = IF line.e # None /\ line.e # 0
                         THEN RoundHalfEven(time2 * line.e, t) ELSE None,
                   !.z = None,
                   !.f = None,
                   !.split = TRUE]>>

\* split_move once find_previous_xy has returned start_xy.
SplitFrom(buffer, position, time2, start_xy, data) ==
    IF start_xy.x = None \/ start_xy.y = None
    THEN [buffer |-> buffer, ok |-> FALSE]
    ELSE IF ParseX(data.line) = None /\ ParseY(data.line) = None
    THEN [buffer |-> buffer, ok |-> FALSE]
    ELSE [buffer |->
            insert_buffer(buffer, position,
                          SplitLines(data.line, start_xy,
                                     IF data.line.x = None THEN start_xy.x
                                                           ELSE data.line.x,
                                     IF data.line.y = None THEN start_xy.y
                                                           ELSE data.line.y,
                                     data.t, time2),
                          <<data.t - time2, time2>>, TRUE),
          ok |-> TRUE]

\* GCodeStreamer.split_move: [buffer |-> the new buffer, ok |-> the return value].
split_move(buffer, position, time2) ==
    SplitFrom(buffer, position, time2, find_previous_xy(buffer, position),
              buffer[position + 1])

\* The "if not found" of optimize_lead_time, never too late.
MutNotFoundBefore(buffer, lead_time, position, t_elapsed, t_next) ==
    [buffer |-> buffer, position |-> position, t_elapsed |-> t_elapsed]

\* The "if not found" of optimize_lead_time.
NotFound(buffer, lead_time, position, t_elapsed, t_next) ==
    IF 4 * t_elapsed <= 8 * lead_time
    THEN [buffer |-> buffer, position |-> position, t_elapsed |-> t_elapsed]
    ELSE [buffer |-> buffer, position |-> position + 1, t_elapsed |-> t_next]

\* The "elif allow_split" of optimize_lead_time, with what split_move returned.
AfterSplit(s, lead_time, position, t_elapsed, t_next) ==
    IF s.ok
    THEN [buffer |-> s.buffer, position |-> position + 1,
          t_elapsed |-> t_next + lead_time]
    ELSE NotFound(s.buffer, lead_time, position, t_elapsed, t_next)

\* GCodeStreamer.optimize_lead_time: [buffer, position, t_elapsed].
optimize_lead_time(buffer, lead_time, position, t_elapsed, t_next, split_allowed) ==
    IF 4 * t_elapsed > 5 * lead_time
    THEN IF 4 * t_next >= 3 * lead_time
         THEN [buffer |-> buffer, position |-> position + 1, t_elapsed |-> t_next]
         ELSE IF split_allowed
         THEN AfterSplit(split_move(buffer, position, lead_time - t_next),
                         lead_time, position, t_elapsed, t_next)
         ELSE NotFound(buffer, lead_time, position, t_elapsed, t_next)
    ELSE [buffer |-> buffer, position |-> position, t_elapsed |-> t_elapsed]

RECURSIVE MutBackWalkAcrossSequences(_, _, _, _, _)
\* Mutant: the walk back does not stop at the end of an earlier sequence.
MutBackWalkAcrossSequences(buffer, i, t_elapsed, t_next, lead_time) ==
    IF i < 1
    THEN [position |-> 0, t_elapsed |-> t_elapsed, t_next |-> t_next,
          previous_sequence |-> FALSE]
    ELSE LET elapsed == t_elapsed + buffer[i].t
         IN  IF elapsed >= lead_time
             THEN [position |-> i - 1, t_elapsed |-> elapsed, t_next |-> t_elapsed,
                   previous_sequence |-> FALSE]
             ELSE MutBackWalkAcrossSequences(buffer, i - 1, elapsed, t_elapsed,
                                             lead_time)

RECURSIVE BackWalk(_, _, _, _, _)
\* "for data in reversed(self.buffer)" of inject_beep_sequence, from item i down.
BackWalk(buffer, i, t_elapsed, t_next, lead_time) ==
    IF i < 1
    THEN [position |-> 0, t_elapsed |-> t_elapsed, t_next |-> t_next,
          previous_sequence |-> FALSE]
    ELSE IF IsEndSequence(buffer[i].line)
    THEN [position |-> i, t_elapsed |-> t_elapsed, t_next |-> t_next,
          previous_sequence |-> TRUE]
    ELSE LET elapsed == t_elapsed + buffer[i].t
         IN  IF elapsed >= lead_time
             THEN [position |-> i - 1, t_elapsed |-> elapsed, t_next |-> t_elapsed,
                   previous_sequence |-> FALSE]
             ELSE BackWalk(buffer, i - 1, elapsed, t_elapsed, lead_time)

\* The place inject_beep_sequence picks after the walk back has ended with w.
PlaceAfterWalk(buffer, w, lead_time, split_allowed) ==
    IF w.previous_sequence \/ w.position = 0
    THEN [buffer |-> buffer, position |-> w.position, t_elapsed |-> w.t_elapsed]
    ELSE optimize_lead_time(buffer, lead_time, w.position, w.t_elapsed, w.t_next,
                            split_allowed)

\* The end of inject_beep_sequence: the commands go to the place picked.
InsertAt(place, commands) ==
    [buffer |-> insert_buffer(place.buffer, place.position, commands, <<>>, FALSE),
     actual_time |-> place.t_elapsed]

\* GCodeStreamer.inject_beep_sequence: [buffer |-> the new buffer, actual_time |->
\* the return value].
inject_beep_sequence(buffer, commands, lead_time, split_allowed) ==
    IF lead_time = 0
    THEN [buffer |-> append_buffer(buffer, commands, <<>>), actual_time |-> 0]
    ELSE InsertAt(PlaceAfterWalk(buffer, BackWalk(buffer, Len(buffer), 0, 0, lead_time),
                                 lead_time, split_allowed),
                  commands)

RECURSIVE StartLoop(_, _, _)

\* One pass of the loop of start, with the line read.
StartLine(g, line, replaced, replace) ==
    IF replace /\ line.kind = "FAN"
    THEN StartLoop([g EXCEPT !.in_file = Tail(@),
                             !.output = IF replaced = 0 THEN @ \o off_commands ELSE @],
                   replaced + 1, replace)
    ELSE IF line.kind = "BODY"
    THEN [g |-> [g EXCEPT !.in_file = Tail(@), !.output = Append(@, line)],
          replaced |-> replaced, exc |-> ""]
    ELSE StartLoop([g EXCEPT !.in_file = Tail(@), !.output = Append(@, line)],
                   replaced, replace)

\* The loop of GCodeStreamer.start with replace_once: [g, replaced, exc].
StartLoop(g, replaced, replace) ==
    IF g.in_file = <<>>
    THEN [g |-> g, replaced |-> replaced, exc |-> "EOFError"]
    ELSE StartLine(g, Head(g.in_file), replaced, replace)

\* Mutant: stop leaves the rest of the file unread.
MutStopNoRest(g) ==
    [g EXCEPT !.output = @ \o Lines(g.buffer) \o Lines(g.buffer_ahead),
              !.buffer = <<>>,
              !.buffer_ahead = <<>>]

\* GCodeStreamer.stop
stop(g) ==
    [g EXCEPT !.output = @ \o Lines(g.buffer) \o Lines(g.buffer_ahead) \o g.in_file,
              !.buffer = <<>>,
              !.buffer_ahead = <<>>,
              !.in_file = <<>>]

RECURSIVE AheadFan(_, _, _, _, _, _, _)
\* "for data in gcode.buffer_ahead" of the main loop: [time |-> ahead_fan_time,
\* speed |-> ahead_fan_speed].
AheadFan(ahead, i, original_speed, scale, ahead_layer_z, ahead_fan_time, now) ==
    IF i > Len(ahead) THEN [time |-> ahead_fan_time, speed |-> now]
    ELSE IF ahead[i].fan # original_speed
    THEN [time |-> ahead_fan_time,
          speed |-> ahead[i].fan * (IF ahead[i].z = ahead_layer_z THEN scale
                                    ELSE ramp_up_scale(ahead[i].z))]
    ELSE LET t == ahead_fan_time + ahead[i].t
         IN  IF t > AHEAD_TIME THEN [time |-> t, speed |-> now]
             ELSE AheadFan(ahead, i + 1, original_speed, scale, ahead_layer_z, t, now)

\* ChosenSpeed without "if ahead_fan_time < 0.04".
MutChosenSpeedNoShortTime(now_fan_speed, ahead_fan_speed, ahead_fan_time, set_speed) ==
    IF now_fan_speed # ahead_fan_speed
    THEN IF \/ now_fan_speed < set_speed
            \/ now_fan_speed < ahead_fan_speed /\ ahead_fan_time < AHEAD_TIME
         THEN IF ahead_fan_speed <= set_speed \/ now_fan_speed <= ahead_fan_speed
              THEN [skip |-> FALSE, speed |-> ahead_fan_speed]
              ELSE [skip |-> TRUE, speed |-> now_fan_speed]
         ELSE [skip |-> FALSE, speed |-> now_fan_speed]
    ELSE [skip |-> FALSE, speed |-> now_fan_speed]

\* The speed the main loop settles on for an event, given the speed of the event
\* and what follows in the look-ahead buffer: skip stands for "continue".
ChosenSpeed(now_fan_speed, ahead_fan_speed, ahead_fan_time, set_speed) ==
    IF now_fan_speed # ahead_fan_speed
    THEN IF ahead_fan_time < SHORT_TIME
         THEN [skip |-> FALSE, speed |-> ahead_fan_speed]
         ELSE IF \/ now_fan_speed < set_speed
                 \/ now_fan_speed < ahead_fan_speed /\ ahead_fan_time < AHEAD_TIME
         THEN IF ahead_fan_speed <= set_speed \/ now_fan_speed <= ahead_fan_speed
              THEN [skip |-> FALSE, speed |-> ahead_fan_speed]
              ELSE [skip |-> TRUE, speed |-> now_fan_speed]
         ELSE [skip |-> FALSE, speed |-> now_fan_speed]
    ELSE [skip |-> FALSE, speed |-> now_fan_speed]

\* The values of the globals of the script after a pass of the main loop.
Globals(g, speed, layer_z, sequence) ==
    [gcode |-> g, set_fan_speed |-> speed, current_layer_z |-> layer_z,
     last_sequence |-> sequence]

\* What the main loop makes of the last line of the buffer, current_data: the
\* kind of the event, and the locals original_speed and ahead_layer_z.
EventOf(g) ==
    [postponed |-> Last(g.buffer).line.kind = "POSTPONED",
     fan_command |-> /\ Last(g.buffer).line.kind # "POSTPONED"
                     /\ current_layer_z = Last(g.buffer).z,
     layer_change |-> /\ Last(g.buffer).line.kind # "POSTPONED"
                      /\ current_layer_z # Last(g.buffer).z,
     z |-> Last(g.buffer).z,
     n |-> IF /\ Last(g.buffer).line.kind = "FAN"
              /\ current_layer_z = Last(g.buffer).z
           THEN Last(g.buffer).line.n
           ELSE None,
     original_speed |-> Last(g.buffer).fan,
     ahead_layer_z |-> IF Len(g.buffer_ahead) > 2 THEN g.buffer_ahead[3].z
                                                  ELSE Last(g.buffer).z]

\* The streamer after the "if current_data[0] == ... elif ... else" of the loop.
Popped(g, ev) ==
    IF ev.postponed THEN pop(g)
    ELSE IF ev.fan_command THEN [pop(g) EXCEPT !.fan_override = ev.original_speed]
    ELSE g

\* current_layer_z after it.
LayerZ(ev) ==
    IF ev.postponed THEN Min(ev.z, ev.ahead_layer_z)
    ELSE IF ev.fan_command THEN current_layer_z
    ELSE ev.z

\* "continue": the pass ends without a sequence.
Continue(g, ev) == Globals(g, set_fan_speed, LayerZ(ev), last_sequence)

RECURSIVE TimeFrom(_, _)
\* The time estimate of the items of the buffer from item i on.
TimeFrom(buffer, i) ==
    IF i > Len(buffer) THEN 0 ELSE buffer[i].t + TimeFrom(buffer, i + 1)

\* The first item of the buffer after the last sequence in it.
AfterPrevious(buffer) ==
    IF \E i \in DOMAIN buffer : IsEndSequence(buffer[i].line)
    THEN 1 + CHOOSE i \in DOMAIN buffer :
                 /\ IsEndSequence(buffer[i].line)
                 /\ \A j \in DOMAIN buffer : IsEndSequence(buffer[j].line) => j <= i
    ELSE 1

\* The lead times a sequence can get in the buffer: the time estimates of what
\* follows each place from the previous sequence, or the start, to the tail.
BoundaryTimes(buffer) ==
    {TimeFrom(buffer, i) : i \in AfterPrevious(buffer) .. (Len(buffer) + 1)}

\* The items that follow the event in the file, however many: the look-ahead
\* buffer and what _read_next_line makes of the lines not read yet.
RestOf(g) == TopUp(g, Len(g.in_file)).buffer_ahead

\* The first of the items from i on with another fan speed than original_speed,
\* 0 if there is none.
RECURSIVE NextChange(_, _, _)
NextChange(items, i, original_speed) ==
    IF i > Len(items) THEN 0
    ELSE IF items[i].fan # original_speed THEN i
    ELSE NextChange(items, i + 1, original_speed)

\* The time estimates of the first k items together.
RECURSIVE TimeBefore(_, _)
TimeBefore(items, k) ==
    IF k <= 0 THEN 0 ELSE items[k].t + TimeBefore(items, k - 1)

\* The fan speed change that follows an event in the file: whether there is one,
\* the lines and the estimated time to it, and its speed, scaled as the main
\* loop scales a speed it finds ahead.
FollowUpAt(items, i, ev) ==
    IF i = 0 THEN [found |-> FALSE, lines |-> 0, time |-> 0, speed |-> 0]
    ELSE [found |-> TRUE,
          lines |-> i,
          time |-> TimeBefore(items, i - 1),
          speed |-> items[i].fan
                    * (IF items[i].z = ev.ahead_layer_z
                       THEN ramp_up_scale(ev.ahead_layer_z)
                       ELSE ramp_up_scale(items[i].z))]

FollowUp(g, ev) ==
    FollowUpAt(RestOf(g), NextChange(RestOf(g), 1, ev.original_speed), ev)

\* The lines of a sequence of SEQUENCE_LENGTH symbols.
COMMANDS == 2 * SEQUENCE_LENGTH + 1

\* Where the walk back of inject_beep_sequence ends in the buffer.
WalkOf(buffer, lead) ==
    IF lead = 0
    THEN [position |-> Len(buffer), t_elapsed |-> 0, t_next |-> 0,
          previous_sequence |-> FALSE]
    ELSE BackWalk(buffer, Len(buffer), 0, 0, lead)

\* The move that was split for a sequence and the two fragments in its place,
\* or nothing when the buffer did not get a line more than the sequence has.
PartsOf(buffer, new_buffer, lead) ==
    IF Len(new_buffer) > Len(buffer) + COMMANDS
    THEN <<buffer[WalkOf(buffer, lead).position + 1],
           new_buffer[WalkOf(buffer, lead).position + 1],
           new_buffer[WalkOf(buffer, lead).position + 2 + COMMANDS]>>
    ELSE <<>>

\* The number of items of the buffer before the commands of the k-th sequence.
PlaceOf(buffer, k) ==
    Cardinality({i \in DOMAIN buffer :
                    \A j \in 1 .. i : ~(buffer[j].line.kind = "M300"
                                        /\ buffer[j].line.gen = k)})

\* The end of a pass: the sequence is put in the buffer and the state updated.
Injected(g, ev, speed, now_sequence, lead, inj) ==
    Globals([g EXCEPT !.buffer = inj.buffer,
                      !.generated = @ + 1,
                      !.emissions = Append(@, [n |-> ev.n, speed |-> speed,
                                               sequence |-> now_sequence,
                                               busy |-> g.sequences_busy,
                                               postponed |-> ev.postponed,
                                               near |-> the_end_is_near(g, HOW_NEAR),
                                               lead |-> lead,
                                               actual |-> inj.actual_time,
                                               boundaries |->
                                                   BoundaryTimes(g.buffer),
                                               walk |-> WalkOf(g.buffer, lead),
                                               at |-> PlaceOf(inj.buffer,
                                                              g.generated + 1),
                                               split |-> Len(inj.buffer)
                                                         > Len(g.buffer) + COMMANDS,
                                               allow |-> ~ev.layer_change
                                                         /\ allow_split,
                                               parts |-> PartsOf(g.buffer,
                                                                 inj.buffer,
                                                                 lead),
                                               set |-> set_fan_speed,
                                               now |-> ev.original_speed
                                                       * ramp_up_scale(
                                                             ev.ahead_layer_z),
                                               follow |-> FollowUp(g, ev)]),
                      !.sequence_time_left =
                          IF g.sequences_busy = 0
                          THEN SEQUENCE_DURATION + (lead - inj.actual_time)
                          ELSE @,
                      !.sequences_busy = @ + 1],
            speed, LayerZ(ev), now_sequence)

\* From "if gcode.the_end_is_near(16) and not now_fan_speed" on.
InjectPass(g, ev, speed, now_sequence, no_backtrack, lead) ==
    Injected(g, ev, speed, now_sequence, lead,
             inject_beep_sequence(
                 g.buffer,
                 Numbered(sequence_to_m300_commands(
                              now_sequence,
                              Comment(IF speed # 0 THEN "fan PWM" ELSE "fan off",
                                      ev.layer_change, no_backtrack)),
                          g.generated + 1),
                 lead,
                 ~ev.layer_change /\ allow_split))

\* SequencePass without "if now_sequence == last_sequence".
MutSequencePassNoCompare(g, ev, speed, now_sequence) ==
    IF g.sequences_busy >= 2 THEN Continue([g EXCEPT !.seq_postponed = TRUE], ev)
    ELSE InjectPass(g, ev, speed, now_sequence,
                    the_end_is_near(g, HOW_NEAR) /\ speed = 0,
                    IF the_end_is_near(g, HOW_NEAR) /\ speed = 0 THEN 0
                    ELSE IF ev.postponed THEN LEAD_TIME \div 2
                    ELSE LEAD_TIME)

\* From "now_sequence = GCodeStreamer.speed_to_sequence(now_fan_speed)" on.
SequencePass(g, ev, speed, now_sequence) ==
    IF now_sequence = last_sequence
    THEN Continue([g EXCEPT !.same_skipped = @ + 1], ev)
    ELSE IF g.sequences_busy >= 2
    THEN Continue([g EXCEPT !.seq_postponed = TRUE,
                            !.postponements = IF g.seq_postponed THEN @ ELSE @ + 1],
                  ev)
    ELSE InjectPass(g, ev, speed, now_sequence,
                    the_end_is_near(g, HOW_NEAR) /\ speed = 0,
                    IF the_end_is_near(g, HOW_NEAR) /\ speed = 0 THEN 0
                    ELSE IF ev.postponed THEN LEAD_TIME \div 2
                    ELSE LEAD_TIME)

\* From "if now_fan_speed != ahead_fan_speed" on, with the look-ahead done.
SpeedPass(g, ev, now_fan_speed, ahead) ==
    IF ChosenSpeed(now_fan_speed, ahead.speed, ahead.time, set_fan_speed).skip
    THEN Continue(g, ev)
    ELSE IF ChosenSpeed(now_fan_speed, ahead.speed, ahead.time, set_fan_speed).speed
            = set_fan_speed
    THEN Continue(g, ev)
    ELSE SequencePass(g, ev,
             ChosenSpeed(now_fan_speed, ahead.speed, ahead.time, set_fan_speed).speed,
             speed_to_sequence(
                 ChosenSpeed(now_fan_speed, ahead.speed, ahead.time,
                             set_fan_speed).speed))

\* From "scale = ramp_up_scale(ahead_layer_z, args)" on.
ScalePass(g, ev, scale) ==
    SpeedPass(g, ev, ev.original_speed * scale,
              IF ev.original_speed * scale # set_fan_speed
              THEN AheadFan(g.buffer_ahead, 1, ev.original_speed, scale,
                            ev.ahead_layer_z, 0, ev.original_speed * scale)
              ELSE [time |-> 0, speed |-> ev.original_speed * scale])

\* The body of the main loop once get_next_event has returned with g and the
\* event has been told.
EventPass(g, ev) ==
    IF ev.layer_change /\ ev.original_speed = 0
    THEN Continue(Popped(g, ev), ev)
    ELSE ScalePass(Popped(g, ev), ev, ramp_up_scale(ev.ahead_layer_z))

MainPass(g) == EventPass(g, EventOf(g))

\* EndOfPrintPass without "if set_fan_speed".
MutEndOfPrintPassAlways(g) ==
    stop([g EXCEPT !.buffer = append_buffer(@, Numbered(off_commands,
                                                        g.generated + 1), <<>>),
                   !.generated = @ + 1,
                   !.off_busy = g.sequences_busy])

\* EndOfPrintPass without the sequence that turns the fan off.
MutEndOfPrintPassNoOff(g) == stop(g)

\* "except EndOfPrint" of the main loop, and the gcode.stop() that follows.
EndOfPrintPass(g) ==
    stop(IF set_fan_speed # 0
         THEN [g EXCEPT !.buffer = append_buffer(@, Numbered(off_commands,
                                                             g.generated + 1), <<>>),
                        !.generated = @ + 1,
                        !.off_busy = g.sequences_busy]
         ELSE g)

\* The script after gcode.start(...) has returned r: unless no_process, the line
\* with the parameters is printed.
Started(r) ==
    /\ gcode' = IF r.exc = "" /\ ~no_process
                THEN [r.g EXCEPT !.output = Append(@, ParamsLine)]
                ELSE r.g
    /\ last_sequence' = IF r.replaced # 0 THEN off_sequence ELSE last_sequence
    /\ enc_pc' = IF r.exc = "" THEN "main" ELSE "failed"

EncStart ==
    /\ enc_pc = "start"
    /\ Started(StartLoop(gcode, 0, ~no_process))
    /\ UNCHANGED <<set_fan_speed, current_layer_z, allow_split, no_process, codec, piVars,
                   allDetVars>>

\* What a pass of the main loop leaves, given what get_next_event returned.
PassResult(r) ==
    IF r.exc = "" THEN MainPass(r.g)
    ELSE Globals(IF r.exc = "EndOfPrint" THEN EndOfPrintPass(r.g) ELSE r.g,
                 set_fan_speed, current_layer_z, last_sequence)

Stored(m) ==
    /\ gcode' = m.gcode
    /\ set_fan_speed' = m.set_fan_speed
    /\ current_layer_z' = m.current_layer_z
    /\ last_sequence' = m.last_sequence

\* The script goes on after "", ends after EndOfPrint and fails after EOFError.
PcAfter(exc) ==
    IF exc = "" THEN "main" ELSE IF exc = "EndOfPrint" THEN "done" ELSE "failed"

\* A pass of the main loop, given what get_next_event returned.
MainLoop(r) == Stored(PassResult(r)) /\ enc_pc' = PcAfter(r.exc)

\* One pass of the main loop: gcode.get_next_event(BUFFER_SIZE) and what follows.
\* BUFFER_SIZE is also the max_buffer the streamer was made with.
EncEvent ==
    /\ enc_pc = "main"
    /\ ~no_process
    /\ MainLoop(get_next_event(gcode, gcode.max_buffer))
    /\ UNCHANGED <<allow_split, no_process, codec, piVars, allDetVars>>

\* A pass of the loop of --no_process, given what get_next_event returned.
PassLoop(r) ==
    /\ gcode' = IF r.exc = "EndOfPrint" THEN stop(r.g) ELSE r.g
    /\ enc_pc' = PcAfter(r.exc)

\* One pass of the loop of --no_process: gcode.get_next_event() and nothing else.
EncPass ==
    /\ enc_pc = "main"
    /\ no_process
    /\ PassLoop(get_next_event(gcode, 0))
    /\ UNCHANGED <<set_fan_speed, current_layer_z, last_sequence, allow_split,
                   no_process, codec, piVars, allDetVars>>

(***************************************************************************)
(* The input files of the encoder: start G-code with or without an M107,   *)
(* the "@body" line, up to MaxBody lines of print code, and then either    *)
(* the end marker and a line of end G-code or nothing.  The print code is  *)
(* made of moves along X at F3000 that take 20 ms, 700 ms or 2 s, moves    *)
(* up by one layer of 0.2 mm at F600, M107 and M106 S1 / S128 / S255.      *)
(***************************************************************************)
MaxBody == 3

MoveDistances == {1000, 35000, 100000}
FanSpeeds == {1, 128, 255}
MOVE_FEED == 3000
LAYER_FEED == 600
LAYER_HEIGHT == 200

Tok(t, v) == [t |-> t, v |-> v]

\* The E of a "thin" move: E0.00003, in units of 0.00001 mm.
THIN_E == 3

BodyTokens ==
    {Tok("move", d) : d \in MoveDistances}
    \cup {Tok("layer", LAYER_HEIGHT), Tok("M107", 0)}
    \cup {Tok("M106", s) : s \in FanSpeeds}

RECURSIVE FileOf(_, _, _, _)
\* The lines for a list of tokens, from line n with the head at x and z.
FileOf(tokens, n, x, z) ==
    IF tokens = <<>> THEN <<>>
    ELSE LET tk == Head(tokens)
             x2 == IF tk.t \in {"move", "thin"} THEN x + tk.v ELSE x
             z2 == IF tk.t = "layer" THEN z + tk.v ELSE z
             line == CASE tk.t = "move" -> G1Line(n, x2, 0, None, tk.v, MOVE_FEED)
                       [] tk.t = "thin" -> G1Line(n, x2, 0, None, THIN_E, MOVE_FEED)
                       [] tk.t = "layer" -> G1Line(n, None, None, z2, None, LAYER_FEED)
                       [] tk.t = "M107" -> FanLine(n, "M107", None)
                       [] tk.t = "M106" -> FanLine(n, "M106", tk.v)
                       [] tk.t = "body" -> BodyLine(n)
                       [] tk.t = "end" -> EndLine(n)
                       [] OTHER -> OtherLine(n)
         IN  <<line>> \o FileOf(Tail(tokens), n + 1, x2, z2)

Bodies == UNION {[1 .. k -> BodyTokens] : k \in 0 .. MaxBody}

InputFiles ==
    {FileOf(head \o body \o tail, 1, 0, 0) :
        head \in {<<Tok("body", 0)>>, <<Tok("M107", 0), Tok("body", 0)>>},
        body \in Bodies,
        tail \in {<<Tok("end", 0), Tok("other", 0)>>, <<>>}}

\* The detector is not part of the run.
DetectorOff == DetInit /\ BinsOff /\ NoServer /\ script = [kind |-> "none"]

InitEnc ==
    /\ DetectorOff
    /\ CodecOff
    /\ PiOff
    /\ gcode \in {GCodeStreamer(f) : f \in InputFiles}
    /\ set_fan_speed = 0
    /\ current_layer_z = 0
    /\ last_sequence = <<>>
    /\ allow_split \in BOOLEAN
    /\ no_process \in BOOLEAN
    /\ no_process => ~allow_split
    /\ enc_pc = "start"

NextEnc == EncStart \/ EncEvent \/ EncPass

SpecEnc == InitEnc /\ [][NextEnc]_vars

(***************************************************************************)
(* The encoder on files that fill the queue of sequences: the print code   *)
(* starts with M106 S1, S128 and S255, each followed by a move of 40 ms,   *)
(* which gives two sequences within 80 ms, and goes on with up to          *)
(* MaxPostTail lines: moves of 40 ms and 2 s, layer changes, M107 and      *)
(* M106 S128 / S255.                                                       *)
(***************************************************************************)
MaxPostTail == 3

GAP_MOVE == 2000

PostHead ==
    <<Tok("body", 0), Tok("M106", 1), Tok("move", GAP_MOVE), Tok("M106", 128),
      Tok("move", GAP_MOVE), Tok("M106", 255), Tok("move", GAP_MOVE)>>

PostTokens ==
    {Tok("move", GAP_MOVE), Tok("move", 100000), Tok("layer", LAYER_HEIGHT),
     Tok("M107", 0), Tok("M106", 128), Tok("M106", 255)}

PostFiles ==
    {FileOf(PostHead \o body \o <<Tok("end", 0), Tok("other", 0)>>, 1, 0, 0) :
        body \in UNION {[1 .. k -> PostTokens] : k \in 0 .. MaxPostTail}}

InitPost ==
    /\ DetectorOff
    /\ CodecOff
    /\ PiOff
    /\ gcode \in {GCodeStreamer(f) : f \in PostFiles}
    /\ set_fan_speed = 0
    /\ current_layer_z = 0
    /\ last_sequence = <<>>
    /\ allow_split \in BOOLEAN
    /\ no_process = FALSE
    /\ enc_pc = "start"

NextPost == EncStart \/ EncEvent

SpecPost == InitPost /\ [][NextPost]_vars

(***************************************************************************)
(* The encoder on files that make optimize_lead_time choose: a comment     *)
(* line, up to MaxLeadMoves moves of 0.3 s to 3 s, one of them with an E   *)
(* of 0.00003, and a fan command.                                          *)
(***************************************************************************)
MaxLeadMoves == 3

LeadDistances == {15000, 35000, 50000, 100000, 150000}

LeadMoves ==
    {Tok("move", d) : d \in LeadDistances} \cup {Tok("thin", 100000)}

LeadFiles ==
    {FileOf(<<Tok("body", 0), Tok("other", 0)>> \o moves
            \o <<Tok("M106", 255), Tok("end", 0), Tok("other", 0)>>, 1, 0, 0) :
        moves \in UNION {[1 .. k -> LeadMoves] : k \in 1 .. MaxLeadMoves}}

InitLead ==
    /\ DetectorOff
    /\ CodecOff
    /\ PiOff
    /\ gcode \in {GCodeStreamer(f) : f \in LeadFiles}
    /\ set_fan_speed = 0
    /\ current_layer_z = 0
    /\ last_sequence = <<>>
    /\ allow_split \in BOOLEAN
    /\ no_process = FALSE
    /\ enc_pc = "start"

NextLead == EncStart \/ EncEvent

SpecLead == InitLead /\ [][NextLead]_vars

(***************************************************************************)
(* The encoder on files with more lines than the buffers hold: M106 S255   *)
(* and two moves of 2 s, a fan command, moves of 40 ms, up to MaxLong of   *)
(* them, another fan command and a move of 2 s.  BUFFER_SIZE, which is 128 *)
(* in the script, is SmallBuffer for these files, so that the moves        *)
(* between the fan commands take less than AHEAD_TIME together and are     *)
(* more than the look-ahead holds.                                         *)
(***************************************************************************)
SmallBuffer == 16

MaxLong == 18

LongSpan == 6

\* The file with k moves of 40 ms between the fan commands first and second:
\* line n for n in 1 .. k + 9, the heads of the moves 100 mm, 200 mm,
\* 202 mm, ... from the start.
LongLine(k, first, second, n) ==
    IF n = 1 THEN BodyLine(n)
    ELSE IF n = 2 THEN FanLine(n, "M106", 255)
    ELSE IF n \in {3, 4} THEN G1Line(n, (n - 2) * 100000, 0, None, 100000, MOVE_FEED)
    ELSE IF n = 5 THEN first[n]
    ELSE IF n <= k + 5
    THEN G1Line(n, 200000 + (n - 5) * GAP_MOVE, 0, None, GAP_MOVE, MOVE_FEED)
    ELSE IF n = k + 6 THEN second[n]
    ELSE IF n = k + 7
    THEN G1Line(n, 300000 + k * GAP_MOVE, 0, None, 100000, MOVE_FEED)
    ELSE IF n = k + 8 THEN EndLine(n)
    ELSE OtherLine(n)

\* The fan commands of a file, as functions of the number of the line.
FanCommands(speeds) ==
    {[n \in 1 .. (MaxLong + 9) |-> FanLine(n, "M106", v)] : v \in speeds}
    \cup {[n \in 1 .. (MaxLong + 9) |-> FanLine(n, "M107", None)]}

LongFiles ==
    {[n \in 1 .. (k + 9) |-> LongLine(k, first, second, n)] :
        k \in (MaxLong - LongSpan) .. MaxLong,
        first \in FanCommands({1, 128}) \ FanCommands({}),
        second \in FanCommands({255})}

InitLong ==
    /\ DetectorOff
    /\ CodecOff
    /\ PiOff
    /\ gcode \in {[GCodeStreamer(f) EXCEPT !.max_buffer = SmallBuffer] :
                     f \in LongFiles}
    /\ set_fan_speed = 0
    /\ current_layer_z = 0
    /\ last_sequence = <<>>
    /\ allow_split \in BOOLEAN
    /\ no_process = FALSE
    /\ enc_pc = "start"

NextLong == EncStart \/ EncEvent

SpecLong == InitLong /\ [][NextLong]_vars

(***************************************************************************)
(* The codec on its own: a fan speed is encoded by speed_to_sequence and   *)
(* the sequence is decoded by seq_to_value.  The speeds are the S values   *)
(* of M106 at full scale, up to MaxSpeed: above 255 the quantised value    *)
(* does not fit in SEQUENCE_LENGTH digits any more.  codec.duty is the     *)
(* percentage check_silence makes of the decoded value, in hundredths.     *)
(***************************************************************************)
MaxSpeed == 260

CodecEncode ==
    /\ codec.pc = "speed"
    /\ codec' = [codec EXCEPT !.pc = "encoded",
                              !.quantized = Quantized(codec.speed * SCALE_DEN),
                              !.sequence = speed_to_sequence(codec.speed * SCALE_DEN)]
    /\ UNCHANGED <<allDetVars, encVars, piVars>>

CodecDecode ==
    /\ codec.pc = "encoded"
    /\ codec' = [codec EXCEPT !.pc = "decoded",
                              !.value = seq_to_value(codec.sequence),
                              !.duty = DutyOf(seq_to_value(codec.sequence))]
    /\ UNCHANGED <<allDetVars, encVars, piVars>>

\* The commands that play the sequence.
CodecCommands ==
    /\ codec.pc = "encoded"
    /\ codec' = [codec EXCEPT !.pc = "commands",
                              !.commands =
                                  sequence_to_m300_commands(codec.sequence, NoComment)]
    /\ UNCHANGED <<allDetVars, encVars, piVars>>

InitCodec ==
    /\ DetectorOff
    /\ EncoderOff
    /\ PiOff
    /\ codec \in {[pc |-> "speed", speed |-> b, quantized |-> None, sequence |-> <<>>,
                   value |-> None, duty |-> None, commands |-> <<>>] :
                  b \in 0 .. MaxSpeed}

NextCodec == CodecEncode \/ CodecDecode \/ CodecCommands

SpecCodec == InitCodec /\ [][NextCodec]_vars

(***************************************************************************)
(* beepdetect.py started more than once.  Every start is a process with a  *)
(* pid of its own, at one of these places:                                 *)
(*   "start"    before create_lock_file,                                   *)
(*   "checked"  os.path.isfile(LOCK_FILE) was False, the file is not       *)
(*              written yet,                                               *)
(*   "running"  the pid is in the file and clean_exit is registered,       *)
(*   "refused"  sys.exit(1) in create_lock_file,                           *)
(*   "exited"   after clean_exit.                                          *)
(* The directory of LOCK_FILE is writable.                                 *)
(***************************************************************************)
\* Processes that may be alive at the same time.
MaxInstances == 2
\* Processes started in a run.
MaxPid == 4

Instance(pid) == [pid |-> pid, pc |-> "start"]

Alive(inst) == inst.pc \in {"start", "checked", "running"}

\* The pids used so far.
Pids == {instances[i].pid : i \in DOMAIN instances}

RECURSIVE MaxOf(_)
MaxOf(S) == IF S = {} THEN 0
            ELSE LET x == CHOOSE y \in S : TRUE
                     m == MaxOf(S \ {x})
                 IN  IF x > m THEN x ELSE m

\* The script is started: a new process, in the place of one that has ended.
Launch ==
    /\ MaxOf(Pids) < MaxPid
    /\ \/ /\ Len(instances) < MaxInstances
          /\ instances' = Append(instances, Instance(MaxOf(Pids) + 1))
       \/ \E i \in DOMAIN instances :
             /\ ~Alive(instances[i])
             /\ instances' = [instances EXCEPT ![i] = Instance(MaxOf(Pids) + 1)]
    /\ UNCHANGED <<lock_file, pwm, allDetVars, codec, encVars>>

\* create_lock_file up to the test of os.path.isfile(LOCK_FILE).
LockCheck(i) ==
    /\ instances[i].pc = "start"
    /\ instances' = [instances EXCEPT
                        ![i].pc = IF lock_file # None THEN "refused" ELSE "checked"]
    /\ UNCHANGED <<lock_file, pwm, allDetVars, codec, encVars>>

\* create_lock_file from open(LOCK_FILE, "w") on: the pid is written and the
\* handlers are registered.
LockWrite(i) ==
    /\ instances[i].pc = "checked"
    /\ instances' = [instances EXCEPT ![i].pc = "running"]
    /\ lock_file' = instances[i].pid
    /\ UNCHANGED <<pwm, allDetVars, codec, encVars>>

\* The process ends, by SIGTERM or otherwise, and atexit calls clean_exit.
CleanExit(i) ==
    /\ instances[i].pc = "running"
    /\ instances' = [instances EXCEPT ![i].pc = "exited"]
    /\ lock_file' = None
    /\ UNCHANGED <<pwm, allDetVars, codec, encVars>>

InitLock ==
    /\ DetectorOff
    /\ CodecOff
    /\ EncoderOff
    /\ ServerOff
    /\ lock_file = None
    /\ instances = <<>>

NextLock ==
    \/ Launch
    \/ \E i \in DOMAIN instances : LockCheck(i)
    \/ \E i \in DOMAIN instances : LockWrite(i)
    \/ \E i \in DOMAIN instances : CleanExit(i)

SpecLock == InitLock /\ [][NextLock]_vars

(***************************************************************************)
(* pwm_server.py.  A duty cycle is held in hundredths of a percent and the *)
(* scale in halves.  Every request is handled in one step; pwm.request and *)
(* pwm.response are the last request and the title of the page, or the     *)
(* status, it was answered with.  pwm.shutdowns counts the calls of        *)
(* shutdown_machine and pwm.generated is the token the last token-less     *)
(* shutdown request generated.                                             *)
(***************************************************************************)
PWM_MIN_DC == 100
FULL_DUTY == 10000
UNIT_SCALE == 2
\* self.shutdown_token once the shutdown was initiated.
INITIATED == -1
\* Python's None for a token, and None or the empty string for the arguments
\* manual and reset; 1 stands for any other string.
Absent == 0

\* The values of d that requests carry, the last one out of range.
MaxDuty == 10002
DutyArgs == {0, 50, 6000, FULL_DUTY, MaxDuty}
\* The largest scale, in halves.
MaxScale == 4
\* The factors of scale requests: one half and two, as [num, den].
ScaleFactors == {<<1, 2>>, <<2, 1>>}
\* The strings a shutdown token is drawn from.
MaxToken == 2
Tokens == 1 .. MaxToken

\* PWMController.__init__ and GpioAPI.__init__
PwmInit ==
    [pc |-> "on", active |-> FALSE, duty_in |-> 0, duty |-> 0, scale |-> UNIT_SCALE,
     out |-> 0, stopped |-> FALSE, override |-> FALSE, shutdown_token |-> Absent,
     shutdowns |-> 0, generated |-> Absent,
     request |-> [path |-> "none"], response |-> "none"]

\* PWMController.scale_duty
scale_duty(p, d) ==
    LET eff_duty == (d * p.scale) \div UNIT_SCALE
    IN  IF eff_duty > FULL_DUTY THEN FULL_DUTY
        ELSE IF eff_duty # 0 /\ eff_duty < PWM_MIN_DC THEN PWM_MIN_DC
        ELSE eff_duty

\* PWMController.set_duty: after PWMController.shutdown pwm_out is None and the
\* call raises AttributeError once duty_in and duty are set.
set_duty(p, d) ==
    LET eff == IF p.active THEN scale_duty(p, d) ELSE 0
    IN  [p EXCEPT !.duty_in = d, !.duty = eff,
                  !.out = IF p.stopped THEN @ ELSE eff]

set_scale(p, scale) == set_duty([p EXCEPT !.scale = scale], p.duty_in)

activate(p, active) == set_duty([p EXCEPT !.active = active], p.duty_in)

\* PWMController.shutdown
pwm_shutdown(p) == [p EXCEPT !.out = 0, !.stopped = TRUE]

\* The answer to a request that got as far as set_duty.
Answered(p, req) ==
    [p EXCEPT !.request = req, !.response = IF p.stopped THEN "500" ELSE "PWM Server"]

Ignored(p, req) ==
    [p EXCEPT !.request = req, !.response = "Manual override in effect"]

\* Mutant: setduty without the test of the override.
MutSetdutyNoOverride(p, d, manual) ==
    LET req == [path |-> "setduty", d |-> d, manual |-> manual]
    IN  IF d < 0 \/ d > FULL_DUTY
        THEN [p EXCEPT !.request = req, !.response = "422"]
        ELSE Answered(set_duty(p, d), req)

\* GpioAPI.setduty
setduty(p, d, manual) ==
    LET req == [path |-> "setduty", d |-> d, manual |-> manual]
    IN  IF d < 0 \/ d > FULL_DUTY
        THEN [p EXCEPT !.request = req, !.response = "422"]
        ELSE IF p.override /\ manual = Absent
        THEN Ignored(p, req)
        ELSE Answered(set_duty(p, d), req)

\* GpioAPI.enable
enable(p, manual) ==
    LET req == [path |-> "enable", manual |-> manual]
    IN  IF p.override /\ manual = Absent
        THEN Ignored(p, req)
        ELSE Answered(activate(p, TRUE), req)

\* GpioAPI.disable
disable(p, manual) ==
    LET req == [path |-> "disable", manual |-> manual]
    IN  IF p.override /\ manual = Absent
        THEN Ignored(p, req)
        ELSE Answered(activate(p, FALSE), req)

\* GpioAPI.scale, for the factors that keep the scale a number of halves.
scale(p, factor, reset) ==
    LET req == [path |-> "scale", factor |-> factor, reset |-> reset]
        new_scale == IF reset # Absent THEN UNIT_SCALE
                     ELSE (p.scale * factor[1]) \div factor[2]
    IN  Answered(set_scale(p, new_scale), req)

\* GpioAPI.man_override: True if enable and enable != "0" else False
man_override(p, enable_arg) ==
    [p EXCEPT !.override = (enable_arg # "" /\ enable_arg # "0"),
              !.request = [path |-> "man_override", enable |-> enable_arg],
              !.response = "PWM Server"]

\* GpioAPI.shutdown_machine
shutdown_machine(p) ==
    [pwm_shutdown(p) EXCEPT !.override = TRUE, !.shutdowns = @ + 1,
                            !.response = "Shutdown initiated"]

\* Mutant: shutdown without the test for a shutdown that was initiated already.
MutShutdownAgain(p, token, fresh) ==
    LET q == [p EXCEPT !.request = [path |-> "shutdown", token |-> token]]
    IN  IF token # Absent
        THEN IF token = p.shutdown_token
             THEN shutdown_machine([q EXCEPT !.shutdown_token = INITIATED])
             ELSE [q EXCEPT !.response = "Shutdown request ignored"]
        ELSE [q EXCEPT !.shutdown_token = fresh, !.generated = fresh,
                       !.response = "Confirm shutdown"]

\* GpioAPI.shutdown; fresh is the token random.choice makes.
shutdown(p, token, fresh) ==
    LET q == [p EXCEPT !.request = [path |-> "shutdown", token |-> token]]
    IN  IF p.shutdown_token = INITIATED
        THEN [q EXCEPT !.response = "Shutting down"]
        ELSE IF token # Absent
        THEN IF token = p.shutdown_token
             THEN shutdown_machine([q EXCEPT !.shutdown_token = INITIATED])
             ELSE [q EXCEPT !.response = "Shutdown request ignored"]
        ELSE [q EXCEPT !.shutdown_token = fresh, !.generated = fresh,
                       !.response = "Confirm shutdown"]

ServerVarsOnly == UNCHANGED <<lock_file, instances, allDetVars, codec, encVars>>

SetDuty ==
    /\ \E d \in DutyArgs, manual \in {Absent, 1} : pwm' = setduty(pwm, d, manual)
    /\ ServerVarsOnly

Enable ==
    /\ \E manual \in {Absent, 1} : pwm' = enable(pwm, manual)
    /\ ServerVarsOnly

Disable ==
    /\ \E manual \in {Absent, 1} : pwm' = disable(pwm, manual)
    /\ ServerVarsOnly

Scale ==
    /\ \E factor \in ScaleFactors, reset \in {Absent, 1} :
          /\ reset = Absent =>
                /\ (pwm.scale * factor[1]) % factor[2] = 0
                /\ (pwm.scale * factor[1]) \div factor[2] \in 1 .. MaxScale
          /\ pwm' = scale(pwm, factor, reset)
    /\ ServerVarsOnly

ManOverride ==
    /\ \E enable_arg \in {"", "0", "1"} : pwm' = man_override(pwm, enable_arg)
    /\ ServerVarsOnly

Shutdown ==
    /\ \E token \in Tokens \cup {Absent}, fresh \in Tokens :
          pwm' = shutdown(pwm, token, fresh)
    /\ ServerVarsOnly

InitServer ==
    /\ DetectorOff
    /\ CodecOff
    /\ EncoderOff
    /\ lock_file = None
    /\ instances = <<>>
    /\ pwm = PwmInit

NextServer == SetDuty \/ Enable \/ Disable \/ Scale \/ ManOverride \/ Shutdown

SpecServer == InitServer /\ [][NextServer]_vars

(***************************************************************************)
(* Properties of the detector.                                             *)
(***************************************************************************)
\* e is x * 100 / 63 rounded to the nearest hundredth, in hundredths.
IsDutyOfValue(e, x) ==
    /\ 2 * (63 * e - 10000 * x) <= 63
    /\ 2 * (10000 * x - 63 * e) <= 63

\* The value of three base-4 digits, most significant first.
ValueOf3(d) == 16 * d[1] + 4 * d[2] + d[3]

IsResetNext ==
    /\ time_index' = 0
    /\ detected' = <<>>
    /\ current_sig_start' = None
    /\ last_sig_end' = None

\* C1: a sequence of 3 symbols played with nominal timing (at least 8 frames of
\* silence, every symbol for 1 or 2 frames, 4 or 5 frames of silence between
\* symbols, at least 8 frames of silence) to a freshly reset detector makes it
\* produce exactly one duty value, round(value * 100 / 63, 2): nothing before the
\* 8th frame of the closing silence, and that one value from then on.
C1_NominalSequenceDecoded ==
    script.kind = "nominal" =>
        IF script.phase = "post" /\ script.n >= 8
        THEN /\ Len(emitted) = 1
             /\ IsDutyOfValue(emitted[1], ValueOf3(script.seq))
        ELSE emitted = <<>>

\* The trace of the spec's scenario 5: symbols 1, 3, 0 give value 28, duty 44.44.
C1_Witness ==
    /\ script.kind = "nominal"
    /\ script.seq = <<1, 3, 0>>
    /\ script.phase = "post"
    /\ script.n >= 8
    /\ emitted = <<4444>>

\* C3: a duty value is produced only in a frame without exactly one signal
\* (silence), only when detected[] holds exactly 3 symbols and time_index -
\* last_sig_end >= 8; the value is round(decode(detected) * 100 / 63, 2) and the
\* detection state is reset in the same step.
C3_EmitOnlyOnCompleteSilence ==
    [][duty'.kind = "duty" =>
          /\ Cardinality(signals') # 1
          /\ Len(detected) = 3
          /\ (time_index + 1) - last_sig_end >= 8
          /\ IsDutyOfValue(duty'.value, ValueOf3(detected))
          /\ IsResetNext]_vars

C3_Witness ==
    /\ duty = [kind |-> "duty", value |-> 4444]
    /\ signals = {}
    /\ detected = <<>>
    /\ time_index = 0

\* What check_signal calls a violation of the timing grammar in the frame that
\* leads to the next state, whose only signal is s.
TimingViolationNext(s) ==
    LET t == time_index + 1
    IN  \/ t < 7
        \/ /\ detected # <<>>
           /\ IF current_sig_start \notin {None, 0} /\ s = detected[Len(detected)]
              THEN 1 + t - current_sig_start > 4
              ELSE \/ t - last_sig_end < 3
                   \/ t - last_sig_end > 9
                   \/ Len(detected) >= 3

\* C8: detected[] always holds at most 3 symbols, each in 0..3; and whenever
\* check_signal finds a violation of the timing grammar the detection state is
\* reset, so that detected[] is empty afterwards.
C8_DetectedIsPrefix ==
    /\ [](/\ Len(detected) <= 3
          /\ \A i \in DOMAIN detected : detected[i] \in 0 .. 3)
    /\ [][\A s \in 0 .. 3 :
             (signals' = {s} /\ ~harmonic' /\ TimingViolationNext(s)) => IsResetNext]_vars

\* A fourth symbol in time after three: it was refused, and the three are gone.
C8_Witness ==
    /\ Cardinality(signals) = 1
    /\ ~harmonic
    /\ time_index = 0
    /\ detected = <<>>
    /\ Len(dropped) = 3

\* C9: at least 7 frames after a reset, one symbol for a short run of frames and
\* then more than 9 frames of silence: no duty value is ever produced, and after
\* the silence the detector holds nothing.
C9_BlipDiscarded ==
    script.kind = "blip" =>
        /\ emitted = <<>>
        /\ duty.kind # "duty"
        /\ (script.phase = "post" /\ script.n > 9) =>
              /\ detected = <<>>
              /\ current_sig_start = None
              /\ last_sig_end = None

\* A blip of at most 4 frames was held as a symbol, and is gone after 10 frames of
\* silence: the reset came in the 9th.
C9_Witness ==
    /\ script.kind = "blip"
    /\ script.phase = "post"
    /\ script.n = 10
    /\ script.run \in 1 .. 4
    /\ detected = <<>>
    /\ time_index = 1
    /\ dropped = <<>>

\* What a frame of silence does to the detection state.
SilenceOutcomeNext ==
    LET t == time_index + 1
    IN  IF detected = <<>>
        THEN /\ time_index' = t /\ detected' = <<>>
             /\ current_sig_start' = None /\ last_sig_end' = last_sig_end
             /\ duty'.kind = "None"
        ELSE IF Len(detected) = 3 /\ t - last_sig_end >= 8
        THEN IsResetNext /\ duty'.kind = "duty"
        ELSE IF Len(detected) < 3 /\ t - last_sig_end > 8
        THEN IsResetNext /\ duty'.kind = "False"
        ELSE /\ time_index' = t /\ detected' = detected
             /\ current_sig_start' = None /\ last_sig_end' = last_sig_end
             /\ duty'.kind = "None"

\* C10: in a frame with two or more signals no symbol is accepted: detected[] is
\* not extended, last_sig_end is not advanced, and the frame does what a frame
\* of silence does.
C10_CollisionIsSilence ==
    [][Cardinality(signals') >= 2 =>
          /\ detected' \in {detected, <<>>}
          /\ last_sig_end' \in {last_sig_end, None}
          /\ SilenceOutcomeNext]_vars

\* A collision while two symbols are held: they are still held.
C10_Witness ==
    /\ Cardinality(signals) = 2
    /\ Len(detected) = 2
    /\ current_sig_start = None

(***************************************************************************)
(* Properties of the requests to the PWM server.                           *)
(***************************************************************************)
\* C6: the requests are queued in the order in which the sequences complete (ids
\* in futures increase) and the PWM server receives them in that order.
C6_ReceivedInIssueOrder ==
    /\ \A i, j \in DOMAIN futures : i < j => futures[i].id < futures[j].id
    /\ \A i, j \in DOMAIN received : i < j => received[i].id < received[j].id

\* The part of C6 that holds: the queue is in the order of issue.
C6_QueuedInIssueOrder ==
    \A i, j \in DOMAIN futures : i < j => futures[i].id < futures[j].id

\* A retry is put in the queue by the step.
RetryIssuedNext(i) ==
    /\ i \in DOMAIN futures'
    /\ futures'[i].retry
    /\ futures'[i].id > issued

\* C7: a request is retried only if it failed and no newer request is queued when
\* its result is inspected; a retry carries the most recently detected duty
\* value; at most 2 retries are issued between one detection and the next.
C7_RetryOnlyMostRecent ==
    /\ [](retries <= 2)
    /\ [][\A i \in 1 .. (Len(futures) + 2) :
             RetryIssuedNext(i) =>
                /\ Len(futures) = 1
                /\ futures[1].st = "fail"
                /\ future_countdowns[1] <= 1
                /\ emitted # <<>>
                /\ futures'[i].duty = emitted[Len(emitted)]]_vars

\* The second retry after a detection is in the queue.
C7_Witness ==
    /\ retries = 2
    /\ futures # <<>>
    /\ futures[Len(futures)].retry

(***************************************************************************)
(* Properties of the codec.                                                *)
(***************************************************************************)
\* C2: for every quantised value v in 0 .. 63 the list speed_to_sequence builds
\* has exactly 3 digits, the most significant first and zeros in front, and
\* seq_to_value gives v back for it.
C2_CodecRoundTrip ==
    (codec.pc \in {"encoded", "decoded"} /\ codec.quantized \in 0 .. 63) =>
        /\ Len(codec.sequence) = 3
        /\ codec.sequence = <<codec.quantized \div 16,
                              (codec.quantized \div 4) % 4,
                              codec.quantized % 4>>
        /\ codec.pc = "decoded" => codec.value = codec.quantized

\* M106 S113 is quantised to 28, encoded as 1, 3, 0 and decoded to 28; and a
\* value under 16, which needs a zero in front, came back as well.
C2_Witness ==
    /\ codec.pc = "decoded"
    /\ \/ codec.speed = 113 /\ codec.sequence = <<1, 3, 0>> /\ codec.value = 28
       \/ codec.sequence = <<0, 0, 3>> /\ codec.value = 3

(***************************************************************************)
(* Properties of the encoder.                                              *)
(***************************************************************************)
\* The line is one the input has between the "@body" line and the end marker,
\* both of which are in the output.
InPrintCode(line, output) ==
    \E i, j \in DOMAIN output :
        /\ output[i].kind = "BODY"
        /\ output[j].kind = "END"
        /\ output[i].n < line.n
        /\ line.n < output[j].n

\* C4: once the script has processed an input with an "@body" line and an end
\* marker, no M106 or M107 line that the input has between the two is in the
\* output.
C4_NoFanCommandInPrintCode ==
    (enc_pc = "done" /\ ~no_process) =>
        \A k \in DOMAIN gcode.output :
            gcode.output[k].kind = "FAN" => ~InPrintCode(gcode.output[k], gcode.output)

\* All the lines the script holds or has printed, in the order of the output.
Stream == gcode.output \o Lines(gcode.buffer) \o Lines(gcode.buffer_ahead)

\* C5: the 7 lines of a beep sequence follow each other without any other line
\* in between, and the sequences are in the order in which they were made: a
\* sequence is never put before, or into, an earlier one.
C5_SequencesContiguousInOrder ==
    /\ \A i, j \in DOMAIN Stream :
          (i < j /\ Stream[i].kind = "M300" /\ Stream[j].kind = "M300") =>
              /\ Stream[i].gen <= Stream[j].gen
              /\ Stream[i].gen = Stream[j].gen =>
                    \A k \in i .. j : /\ Stream[k].kind = "M300"
                                      /\ Stream[k].gen = Stream[i].gen
    /\ \A i \in DOMAIN Stream :
          (Stream[i].kind = "M300" /\ Stream[i].note = "start") =>
              /\ i + 6 <= Len(Stream)
              /\ \A k \in i .. (i + 6) : /\ Stream[k].kind = "M300"
                                         /\ Stream[k].gen = Stream[i].gen
              /\ Stream[i + 6].note = "end"

\* The second sequence was to lead a move of less than the lead time: the walk
\* back ran into the end of the first sequence, and the second one follows it.
C5_Witness ==
    /\ enc_pc = "main"
    /\ \E i \in DOMAIN gcode.buffer :
          /\ Len(gcode.buffer) = i + 8
          /\ IsEndSequence(gcode.buffer[i].line)
          /\ gcode.buffer[i].line.gen = 1
          /\ gcode.buffer[i + 1].line.kind = "M300"
          /\ gcode.buffer[i + 1].line.note = "start"
          /\ gcode.buffer[i + 1].line.gen = 2
          /\ ~gcode.buffer[i + 1].line.comment.no_backtrack
          /\ gcode.buffer[i + 8].line.kind = "G1"
          /\ gcode.buffer[i + 8].t > 0
          /\ gcode.buffer[i + 8].t < 1300

(***************************************************************************)
(* Further properties of the detector.                                     *)
(***************************************************************************)
\* C11: a symbol seen fewer than 7 frames after the last reset is never added to
\* detected[]: it resets the detector.  Every symbol detected[] holds was added 7
\* frames or more after the last reset, so no sequence that is produced has a
\* symbol seen earlier than that.
C11_EarlySymbolResets ==
    /\ [](detected # <<>> => (time_index >= 7 /\ last_sig_end >= 7))
    /\ [][/\ (Cardinality(signals') = 1 /\ ~harmonic' /\ time_index + 1 < 7) =>
                IsResetNext
          /\ Len(detected') > Len(detected) => time_index' >= 7]_vars

\* The only signal of a frame reset a detector that held nothing: it came too
\* soon after the last reset.
C11_Witness ==
    /\ Cardinality(signals) = 1
    /\ ~harmonic
    /\ time_index = 0
    /\ detected = <<>>
    /\ dropped = <<>>
    /\ duty.kind = "None"

C13_SilenceIsBoundary ==
    [][(detected # <<>> /\ time_index - last_sig_end >= 8) =>
          Len(detected') <= Len(detected)]_vars

\* C14 as stated: on the trace of 8 frames of silence, symbol 1 for 2 frames, 3
\* frames of silence, a frame with signals 1 and 2, 2 frames of silence, symbol 3
\* for 1 frame and 8 frames of silence, the frame with two signals is treated as
\* silence, symbol 3 is refused because it comes too long after symbol 1 and
\* resets the detector, and no duty value is produced.
C14_CollisionTraceRejected ==
    script.kind = "trace" =>
        /\ emitted = <<>>
        /\ script.k \in 10 .. 16 => (detected = <<1>> /\ last_sig_end = 10)
        /\ script.k = 17 => (detected = <<>> /\ time_index = 0)
        /\ script.k >= 17 => 3 \notin {detected[i] : i \in DOMAIN detected}

\* C14 as the code has it: on that trace the frame with two signals is treated
\* as silence and no duty value is produced, but symbol 3 comes 7 frames after
\* the last frame of symbol 1, which is within 3 .. 9: it is accepted as the
\* second symbol.  The two symbols are still held after the 8 frames of silence
\* that end the trace; a 9th frame of silence discards them.
C14_CollisionTraceHeld ==
    script.kind = "trace" =>
        /\ emitted = <<>>
        /\ duty.kind = (IF script.k = 26 THEN "False" ELSE "None")
        /\ script.k \in 10 .. 16 => (detected = <<1>> /\ last_sig_end = 10)
        /\ script.k \in 17 .. 25 =>
              (detected = <<1, 3>> /\ last_sig_end = 17 /\ time_index = script.k)
        /\ script.k = 26 => (detected = <<>> /\ time_index = 0 /\ dropped = <<1, 3>>)

\* The whole trace was played.
C14_Witness ==
    /\ script.kind = "trace"
    /\ script.k = Len(CollisionTrace)
    /\ signals = {}
    /\ detected = <<1, 3>>
    /\ time_index = 25

\* C15: every audio frame adds exactly 1 to time_index, unless the frame resets
\* the detection state, which alone sets time_index to 0; check_signal and
\* check_silence never wind it back otherwise, so the times held in
\* current_sig_start and last_sig_end are never ahead of it.
C15_TimeIndexAdvances ==
    /\ [](/\ time_index >= 0
          /\ last_sig_end <= time_index
          /\ current_sig_start <= time_index)
    /\ [][\/ time_index' = time_index + 1
          \/ time_index' = 0 /\ IsResetNext]_vars

\* Two symbols were held for more than 8 frames of silence: check_silence has
\* reset the detection state and time starts again.
C15_Witness ==
    /\ time_index = 0
    /\ duty.kind = "False"
    /\ Len(dropped) = 2
    /\ detected = <<>>

(***************************************************************************)
(* Further properties of the codec.                                        *)
(***************************************************************************)
\* C16: for every duty byte b in 0 .. 255 at ramp scale 1, speed_to_sequence
\* gives the base-4 digits of round(b * 63 / 255), and the percentage the
\* detector makes of that sequence is within 100 / (2 * 63) of b * 100 / 255, up
\* to the rounding of the percentage to 2 decimals (half a hundredth).
\* With q the quantised value and d the percentage in hundredths:
\*   |255 q - 63 b| <= 255 / 2   and   |d / 100 - 100 b / 255| <= 100 / 126 + 0.005.
C16_QuantisationError ==
    (codec.pc \in {"encoded", "decoded"} /\ codec.speed \in 0 .. 255) =>
        /\ 2 * Abs(255 * codec.quantized - 63 * codec.speed) <= 255
        /\ codec.sequence = <<codec.quantized \div 16,
                              (codec.quantized \div 4) % 4,
                              codec.quantized % 4>>
        /\ codec.pc = "decoded" =>
              Abs(255 * 126 * codec.duty - 126 * 10000 * codec.speed)
                  <= 255 * 10000 + (255 * 126) \div 2

\* M106 S128 is 50.2 %: it is sent as 2, 0, 0 and comes back as 50.79 %.
C16_Witness ==
    /\ codec.pc = "decoded"
    /\ codec.speed = 128
    /\ codec.sequence = <<2, 0, 0>>
    /\ codec.duty = 5079

\* C17: for a sequence of 3 symbols sequence_to_m300_commands gives exactly 7
\* commands: M300 S0 P200 first, then for each symbol s one M300 S<SIGNAL_FREQS[s]>
\* P20, with one M300 S0 P100 between two symbols and none after the last, and
\* M300 S0 P200 ("end sequence") last.
C17_SequenceFraming ==
    (codec.pc = "commands" /\ Len(codec.sequence) = 3) =>
        /\ Len(codec.commands) = 2 * 3 + 1
        /\ \A i \in DOMAIN codec.commands : codec.commands[i].kind = "M300"
        /\ codec.commands[1].s = 0
        /\ codec.commands[1].p = 200
        /\ codec.commands[1].note = "start"
        /\ codec.commands[1].sequence = codec.sequence
        /\ \A k \in 1 .. 3 :
              /\ codec.commands[2 * k].s = SIGNAL_FREQS[codec.sequence[k] + 1]
              /\ codec.commands[2 * k].p = 20
        /\ \A k \in 1 .. 2 :
              /\ codec.commands[2 * k + 1].s = 0
              /\ codec.commands[2 * k + 1].p = 100
        /\ codec.commands[7].s = 0
        /\ codec.commands[7].p = 200
        /\ codec.commands[7].note = "end"

\* The commands of the sequence 1, 3, 0.
C17_Witness ==
    /\ codec.pc = "commands"
    /\ codec.sequence = <<1, 3, 0>>
    /\ Len(codec.commands) = 7
    /\ codec.commands[2].s = 6452
    /\ codec.commands[4].s = 7407
    /\ codec.commands[6].s = 5988

(***************************************************************************)
(* Further properties of the encoder.                                      *)
(***************************************************************************)
\* The lines i and j of the input are fan commands of the print code, with no
\* fan command between them.
ConsecutiveFanCommands(file, i, j) ==
    /\ i < j
    /\ file[i].kind = "FAN"
    /\ file[j].kind = "FAN"
    /\ \A k \in (i + 1) .. (j - 1) : file[k].kind # "FAN"
    /\ \E b \in 1 .. (i - 1) : file[b].kind = "BODY"
    /\ \E e \in (j + 1) .. Len(file) : file[e].kind = "END"

\* The estimated print time, in ms, of line k of the input: a move of e
\* micrometres along X, or a move up by one layer, at f mm/min.
PrintTime(file, k) ==
    IF file[k].kind # "G1" THEN 0
    ELSE IF file[k].e # None THEN (file[k].e * FEED_FACTOR) \div file[k].f
    ELSE (LAYER_HEIGHT * FEED_FACTOR) \div file[k].f

RECURSIVE TimeBetween(_, _, _)
\* The estimated print time of the lines after line i and before line j.
TimeBetween(file, i, j) ==
    IF i + 1 >= j THEN 0 ELSE PrintTime(file, i + 1) + TimeBetween(file, i + 1, j)

\* The fan speed a fan command asks for.
FanValue(line) == IF line.cmd = "M106" THEN line.s ELSE 0

\* The speed is the value v scaled for one of the layers of the input.
IsScaled(speed, v) ==
    \E layer \in 0 .. MaxBody : speed = v * ramp_up_scale(layer * LAYER_HEIGHT)

\* The sequences the main loop has made in the passes for the input lines i and j.
EmittedFor(g, i, j) == {k \in DOMAIN g.emissions : g.emissions[k].n \in {i, j}}

\* A fan command that asks for another speed follows line j within the 1.5 s
\* the main loop looks ahead.
AnotherSpeedFollows(file, j) ==
    \E k \in (j + 1) .. Len(file) :
        /\ file[k].kind = "FAN"
        /\ FanValue(file[k]) # FanValue(file[j])
        /\ TimeBetween(file, j, k) <= AHEAD_TIME

\* One of the three lines after line j moves to another layer: ahead_layer_z of
\* the pass for line j is "gcode.buffer_ahead[2][1]".
LayerChangeFollows(file, j) ==
    \E k \in (j + 1) .. Min(j + 3, Len(file)) : file[k].kind = "G1" /\ file[k].z # None

\* The lines i and j are fan commands of the print code less than 40 ms apart.
ClosePair(file, i, j) ==
    /\ ConsecutiveFanCommands(file, i, j)
    /\ TimeBetween(file, i, j) < SHORT_TIME

\* At most one sequence was made in the passes for lines i and j, and it encodes
\* the value of line j.
MergedInto(g, i, j) ==
    /\ Cardinality(EmittedFor(g, i, j)) <= 1
    /\ \A k \in EmittedFor(g, i, j) :
          IsScaled(g.emissions[k].speed, FanValue(g.file[j]))

\* C18 as the specification states it: for two consecutive fan commands of the
\* print code that are less than 40 ms of estimated print time apart, only one
\* sequence is made for the two, and it encodes the value of the later command.
C18_CloseCommandsMerged ==
    \A i, j \in DOMAIN gcode.file :
        (/\ enc_pc \in {"main", "done"}
         /\ ~no_process
         /\ ClosePair(gcode.file, i, j)) => MergedInto(gcode, i, j)

\* C18: for two consecutive fan commands of the print code that are less than
\* 40 ms of estimated print time apart, when no fan command for another speed
\* follows the later one within 1.5 s and no layer change follows it within three
\* lines, at most one sequence is made for the two, and it encodes the value of
\* the later command.
C18_IsolatedPairMerged ==
    \A i, j \in DOMAIN gcode.file :
        (/\ enc_pc \in {"main", "done"}
         /\ ~no_process
         /\ ClosePair(gcode.file, i, j)
         /\ ~AnotherSpeedFollows(gcode.file, j)
         /\ ~LayerChangeFollows(gcode.file, j)) => MergedInto(gcode, i, j)

\* The encoder is done with a file where a command for one speed is followed at
\* once by a command for another, and the only sequence of the two, made in the
\* pass for the first, encodes the second and not the first.
C18_Witness ==
    /\ enc_pc = "done"
    /\ ~no_process
    /\ \E i, j \in DOMAIN gcode.file :
          /\ ClosePair(gcode.file, i, j)
          /\ ~AnotherSpeedFollows(gcode.file, j)
          /\ ~LayerChangeFollows(gcode.file, j)
          /\ FanValue(gcode.file[j]) # 0
          /\ \E k \in DOMAIN gcode.emissions :
                /\ EmittedFor(gcode, i, j) = {k}
                /\ gcode.emissions[k].n = i
                /\ IsScaled(gcode.emissions[k].speed, FanValue(gcode.file[j]))
                /\ ~IsScaled(gcode.emissions[k].speed, FanValue(gcode.file[i]))

\* The sequence most recently put in the output: the last one made for an event,
\* or else the "fan off" sequence that replaced an M107 of the start G-code.
MostRecentSequence ==
    IF gcode.emissions # <<>> THEN Last(gcode.emissions).sequence ELSE last_sequence

\* C19: an event whose scaled speed quantises to the sequence most recently
\* emitted gets no sequence: whenever a pass of the main loop makes a sequence,
\* it is the sequence of the speed settled on and differs from the one before.
C19_SameSequenceSkipped ==
    [][Len(gcode'.emissions) > Len(gcode.emissions) =>
          /\ Last(gcode'.emissions).sequence
                = speed_to_sequence(Last(gcode'.emissions).speed)
          /\ Last(gcode'.emissions).sequence # MostRecentSequence
          /\ gcode'.same_skipped = gcode.same_skipped]_vars

\* A pass has met a speed that differs from the speed in force and quantises to
\* the sequence emitted last, and has made no sequence for it.
C19_Witness ==
    /\ ~no_process
    /\ gcode.same_skipped > 0
    /\ set_fan_speed = 0
    /\ last_sequence = off_sequence
    /\ gcode.emissions = <<>>

\* The most sequences the encoder lets be in flight: "if gcode.sequences_busy >= 2".
MAX_BUSY == 2

\* C20: at most 2 sequences are in flight at any point of the run: the count of
\* sequences not yet played never exceeds 2, and no sequence, whether made for
\* an event or as the "fan off" of the end of the print, is put in the output
\* while 2 are in flight.
C20_AtMostTwoInFlight ==
    ~no_process =>
        /\ gcode.sequences_busy <= MAX_BUSY
        /\ \A k \in DOMAIN gcode.emissions : gcode.emissions[k].busy < MAX_BUSY
        /\ gcode.off_busy < MAX_BUSY

\* Every sequence made for a postponed event was asked for with half the lead
\* time.
PostponedLeadHalved ==
    \A k \in DOMAIN gcode.emissions :
        gcode.emissions[k].postponed => gcode.emissions[k].lead = LEAD_TIME \div 2

\* The same, but for a "fan off" made while the end marker is near, which is
\* asked for with no lead time.
PostponedLeadHalvedOrOff ==
    \A k \in DOMAIN gcode.emissions :
        gcode.emissions[k].postponed =>
            gcode.emissions[k].lead =
                IF gcode.emissions[k].near /\ gcode.emissions[k].speed = 0 THEN 0
                ELSE LEAD_TIME \div 2

\* An event stays postponed only while 2 sequences are in flight, and every
\* postponed event is still waiting, was handed to the main loop, or was
\* dropped by a new fan command.
PostponedAccounted ==
    /\ gcode.seq_postponed => gcode.sequences_busy >= MAX_BUSY
    /\ gcode.postponements
         = gcode.postponed_passes + gcode.postponed_dropped
           + (IF gcode.seq_postponed THEN 1 ELSE 0)

\* The pass that starts here handles a line with a fan command.
FanCommandEvent ==
    /\ enc_pc = "main"
    /\ get_next_event(gcode, BUFFER_SIZE).exc = ""
    /\ EventOf(get_next_event(gcode, BUFFER_SIZE).g).n # None

\* A pass for a new fan command drops the event that was postponed, and hands
\* no postponed event to the main loop.
PostponedDropped ==
    (gcode.seq_postponed /\ FanCommandEvent) =>
        /\ gcode'.postponed_dropped = gcode.postponed_dropped + 1
        /\ gcode'.postponed_passes = gcode.postponed_passes

\* C21 as the specification states it: an event postponed because 2 sequences
\* were in flight is processed at the first later line at which a sequence
\* finishes, with a lead time of lead_time / 2, and is dropped for good if a new
\* fan command is read before that.
C21_PostponedHalfLead ==
    /\ [](PostponedAccounted /\ PostponedLeadHalved)
    /\ [][PostponedDropped]_vars

\* C21: an event postponed because 2 sequences were in flight is processed at
\* the first later line at which a sequence finishes, with a lead time of
\* lead_time / 2, or of 0 when it turns the fan off and the end marker is near;
\* it is dropped for good if a new fan command is read before that.
C21_PostponedHalfLeadOrOff ==
    /\ [](PostponedAccounted /\ PostponedLeadHalvedOrOff)
    /\ [][PostponedDropped]_vars

\* A postponed event was handed to the main loop once a sequence had finished,
\* and its sequence was made with half the lead time.
C21_Witness ==
    /\ gcode.postponed_passes = 1
    /\ gcode.postponed_dropped = 0
    /\ gcode.emissions # <<>>
    /\ Last(gcode.emissions).postponed
    /\ Last(gcode.emissions).lead = LEAD_TIME \div 2
    /\ Last(gcode.emissions).busy = MAX_BUSY - 1

\* The lines of the output that follow the end marker.
AfterEnd(out) ==
    SubSeq(out, (CHOOSE i \in DOMAIN out : out[i].kind = "END") + 1, Len(out))

\* The k-th sequence made is "fan off" and comes right after the end marker,
\* the last line the buffer held.
OffAppended(out, k) ==
    /\ Len(AfterEnd(out)) >= Len(off_commands)
    /\ SubSeq(AfterEnd(out), 1, Len(off_commands)) = Numbered(off_commands, k)
    /\ off_commands[1].sequence = <<0, 0, 0>>

\* C22: when the end marker is reached with a set fan speed that is not 0, a
\* "fan off" sequence 000 is appended to the buffer, right after the marker;
\* with a set fan speed of 0 nothing is appended.
C22_FinalFanOff ==
    [][(enc_pc = "main" /\ enc_pc' = "done" /\ ~no_process) =>
          IF set_fan_speed # 0
          THEN /\ OffAppended(gcode'.output, gcode.generated + 1)
               /\ gcode'.generated = gcode.generated + 1
          ELSE /\ \A i \in DOMAIN AfterEnd(gcode'.output) :
                     AfterEnd(gcode'.output)[i].kind # "M300"
               /\ gcode'.generated = gcode.generated]_vars

\* The print has ended with the fan on, and the output has the "fan off"
\* sequence after the end marker.
C22_Witness ==
    /\ enc_pc = "done"
    /\ ~no_process
    /\ set_fan_speed # 0
    /\ gcode.emissions # <<>>
    /\ OffAppended(gcode.output, gcode.generated)

\* The time is within [0.5 T, 2 T] of the lead time T.
InLeadRange(time, lead) == 2 * time >= lead /\ time <= 2 * lead

\* C23: a sequence asked for with a lead time T that is not 0 gets a lead within
\* [0.5 T, 2 T] whenever some place between the previous sequence, or the start
\* of the buffer, and the tail gives one; otherwise it gets no more than the
\* buffer holds after the previous sequence.
C23_LeadWithinRange ==
    \A k \in DOMAIN gcode.emissions :
        gcode.emissions[k].lead # 0 =>
            IF \E c \in gcode.emissions[k].boundaries :
                   InLeadRange(c, gcode.emissions[k].lead)
            THEN InLeadRange(gcode.emissions[k].actual, gcode.emissions[k].lead)
            ELSE \E c \in gcode.emissions[k].boundaries :
                     gcode.emissions[k].actual <= c


(***************************************************************************)
(* C24: the main loop never waits on an HTTP request.  Whenever the loop   *)
(* is about to make a pass (no request is overdue and no worker is about   *)
(* to take one), the request whose result that pass inspects has finished, *)
(* so that future.result() returns at once.                                *)
(***************************************************************************)
C24_NeverWaits ==
    (script.kind = "burst" /\ ~Overdue(futures) /\ ~WorkerFree(futures))
        => ResultReady(futures, future_countdowns)

\* a * b is within half of b of c: a is one of the integers nearest to c / b.
NearestMultiple(a, b, c) == 2 * (a * b - c) <= b /\ 2 * (c - a * b) <= b

\* ceil(num / den) for positive den.
CeilDiv(num, den) == (num + den - 1) \div den

\* C25 as stated: the result of a request is inspected
\* ceil((timeout + 1) * SAMPLING_RATE / NUM_SAMPLES) frames after the request
\* was issued, which is no less than timeout + 1 seconds of audio.
C25_CountdownIsCeil ==
    (script.kind = "timer" /\ script.inspected # None) =>
        /\ script.inspected = CeilDiv((script.timeout + 1) * SAMPLING_RATE, NUM_SAMPLES)
        /\ script.inspected * NUM_SAMPLES >= (script.timeout + 1) * SAMPLING_RATE

\* C25, amended: the result of a request is inspected n frames after the request
\* was issued, where n is the integer nearest to
\* (timeout + 1) * SAMPLING_RATE / NUM_SAMPLES: no sooner than timeout + 1 seconds
\* less half a frame of audio.
C25_CountdownIsNearest ==
    (script.kind = "timer" /\ script.inspected # None) =>
        NearestMultiple(script.inspected, NUM_SAMPLES,
                        (script.timeout + 1) * SAMPLING_RATE)

\* The result was inspected sooner than timeout + 1 seconds after the request.
C25_Witness ==
    /\ script.kind = "timer"
    /\ script.inspected # None
    /\ script.inspected * NUM_SAMPLES < (script.timeout + 1) * SAMPLING_RATE

\* The processes that got past the lock check and have not ended.
PastLockCheck == {i \in DOMAIN instances : instances[i].pc \in {"checked", "running"}}

\* C26: the lock file prevents two detector instances: of the processes that are
\* alive at the same time at most one is past the lock check of create_lock_file.
C26_OneInstancePastLock == Cardinality(PastLockCheck) <= 1

\* The input file has no end-of-print marker.
NoEndMarker(file) == \A i \in DOMAIN file : file[i].kind # "END"

\* The lines of the input that are no fan commands.
KeptLines(file) == {file[i] : i \in {j \in DOMAIN file : file[j].kind # "FAN"}}

\* C27: when the input has ended without an end-of-print marker and the script
\* has stopped, every buffered line has been flushed: the buffers are empty
\* and every line of the input that is no fan command is in the output.
C27_EndOfFileFlushes ==
    (enc_pc \in {"done", "failed"} /\ NoEndMarker(gcode.file)) =>
        /\ gcode.buffer = <<>>
        /\ gcode.buffer_ahead = <<>>
        /\ KeptLines(gcode.file) \subseteq {gcode.output[j] : j \in DOMAIN gcode.output}

\* The input file has the body-start marker and the end-of-print marker.
HasMarkers(file) ==
    /\ \E i \in DOMAIN file : file[i].kind = "BODY"
    /\ \E i \in DOMAIN file : file[i].kind = "END"

\* C28: with --no_process and no timing annotation, an input that has both
\* markers comes out line for line as it went in.
C28_NoProcessIsIdentity ==
    (no_process /\ enc_pc = "done" /\ HasMarkers(gcode.file)) =>
        gcode.output = gcode.file

\* A run of --no_process has ended on a file with fan commands among its lines.
C28_Witness ==
    /\ no_process
    /\ enc_pc = "done"
    /\ HasMarkers(gcode.file)
    /\ \E i, j \in DOMAIN gcode.file :
          /\ i < j
          /\ gcode.file[i].kind = "FAN"
          /\ gcode.file[j].kind = "G1"
    /\ gcode.generated = 0

\* The last request was a setduty, enable or disable without the manual argument.
ControlWithoutManual(p) ==
    /\ p.request.path \in {"setduty", "enable", "disable"}
    /\ p.request.manual = Absent

\* C29: while the server is in manual override mode, a setduty, enable or
\* disable request without the manual argument leaves the active flag, the
\* requested duty, the effective duty and the override flag as they were.
C29_OverrideIgnoresRequests ==
    [][(pwm.override /\ ControlWithoutManual(pwm')) =>
          /\ pwm'.active = pwm.active
          /\ pwm'.duty_in = pwm.duty_in
          /\ pwm'.duty = pwm.duty
          /\ pwm'.override = pwm.override]_vars

\* In override mode, with the output enabled, a setduty request without the
\* manual argument asked for another duty than the requested one and was ignored.
C29_Witness ==
    /\ pwm.override
    /\ pwm.active
    /\ pwm.request.path = "setduty"
    /\ pwm.request.manual = Absent
    /\ pwm.request.d <= FULL_DUTY
    /\ pwm.request.d # pwm.duty_in
    /\ pwm.response = "Manual override in effect"

Bracketed(em) ==
    /\ em.lead # 0
    /\ ~em.walk.previous_sequence
    /\ em.walk.position > 0
    /\ em.walk.t_elapsed >= em.lead
    /\ em.walk.t_next < em.lead

\* What was done with the sequence: "before" the move at p, "after" it, or
\* "between" the two fragments the move was split into.
Chosen(em) ==
    IF em.split THEN "between"
    ELSE IF em.at = em.walk.position THEN "before"
    ELSE IF em.at = em.walk.position + 1 THEN "after"
    ELSE "elsewhere"

\* C31 as stated: after p if t_next >= 0.75 T; else before p if
\* t_elapsed <= 2 T; else between the fragments if splitting is allowed; else
\* before p.
StatedRule(em) ==
    IF 4 * em.walk.t_next >= 3 * em.lead THEN "after"
    ELSE IF em.walk.t_elapsed <= 2 * em.lead THEN "before"
    ELSE IF em.allow THEN "between"
    ELSE "before"

CanSplit(em) == em.allow /\ em.walk.position > 1

\* C31, amended: before p (lead t_elapsed) if t_elapsed <= 1.25 T; else after p
\* (lead t_next) if t_next >= 0.75 T; else between the fragments if splitting
\* is allowed and the start of the move is known; else before p if
\* t_elapsed <= 2 T; else after p (lead t_next).
CodeRule(em) ==
    IF 4 * em.walk.t_elapsed <= 5 * em.lead THEN "before"
    ELSE IF 4 * em.walk.t_next >= 3 * em.lead THEN "after"
    ELSE IF CanSplit(em) THEN "between"
    ELSE IF em.walk.t_elapsed <= 2 * em.lead THEN "before"
    ELSE "after"

EOf(line) == IF line.e = None THEN 0 ELSE line.e

\* The fragments of a split move have the times (t_elapsed - T) and
\* (T - t_next), which sum to the time of the move, and the second fragment
\* ends where the move ended.
SplitTimesAndEnd(em) ==
    /\ em.parts[2].t = em.walk.t_elapsed - em.lead
    /\ em.parts[3].t = em.lead - em.walk.t_next
    /\ em.parts[2].t + em.parts[3].t = em.parts[1].t
    /\ em.parts[2].line.kind = "G1" /\ em.parts[3].line.kind = "G1"
    /\ em.parts[3].line.x = em.parts[1].line.x
    /\ em.parts[3].line.y = em.parts[1].line.y
    /\ em.parts[2].z = em.parts[1].z /\ em.parts[3].z = em.parts[1].z

\* The E values of the fragments sum to the E of the move.
SplitKeepsE(em) ==
    EOf(em.parts[2].line) + EOf(em.parts[3].line) = EOf(em.parts[1].line)

\* C32: a split replaces the move at p by two fragments with the time estimates
\* (t_elapsed - T) and (T - t_next), summing to the estimate of the move, whose
\* E values sum to the E of the move and whose second fragment ends where the
\* move ended.
C32_SplitKeepsTotals ==
    \A k \in DOMAIN gcode.emissions :
        gcode.emissions[k].split =>
            /\ SplitTimesAndEnd(gcode.emissions[k])
            /\ SplitKeepsE(gcode.emissions[k])

\* What holds of C32: the times and the end point.
C32_SplitKeepsTime ==
    \A k \in DOMAIN gcode.emissions :
        gcode.emissions[k].split => SplitTimesAndEnd(gcode.emissions[k])

\* A move was split whose fragments do not have the E of the move together.
C32_ExtrusionChanged ==
    \E k \in DOMAIN gcode.emissions :
        gcode.emissions[k].split /\ ~SplitKeepsE(gcode.emissions[k])

\* The frame that leads to the next state has the only signal s, no harmonic,
\* and s starts a new symbol: detected[] holds symbols and s is another symbol
\* than the last, or the last frame was one of silence.
NewSymbolNext(s) ==
    /\ detected # <<>>
    /\ signals' = {s}
    /\ ~harmonic'
    /\ s # detected[Len(detected)] \/ current_sig_start = None

\* C33: a frame that starts a new symbol while detected[] holds symbols appends
\* the symbol if it comes 3 to 9 frames after last_sig_end and fewer than
\* SEQUENCE_LENGTH symbols are held; in every other case the detector is reset
\* and the symbol is not recorded.
C33_NewSymbolGap ==
    [][\A s \in Symbols :
          NewSymbolNext(s) =>
             IF /\ 3 <= time_index + 1 - last_sig_end
                /\ time_index + 1 - last_sig_end <= 9
                /\ Len(detected) < SEQUENCE_LENGTH
             THEN /\ detected' = Append(detected, s)
                  /\ time_index' = time_index + 1
                  /\ last_sig_end' = time_index'
             ELSE IsResetNext]_vars

\* The last symbol came once more after silence and was appended as a new one.
C33_Witness ==
    /\ Len(detected) = 2
    /\ detected[1] = detected[2]
    /\ signals = {detected[2]}
    /\ ~harmonic
    /\ last_sig_end = time_index
    /\ current_sig_start = time_index

\* The frames the last symbol of detected[] has been seen for in a row, up to
\* and with the current frame: current_sig_start is only set while it lasts.
RunLength == 1 + time_index - current_sig_start

\* The frame that leads to the next state goes on with the last symbol.
SameSymbolNext ==
    /\ detected # <<>>
    /\ current_sig_start # None
    /\ signals' = {detected[Len(detected)]}
    /\ ~harmonic'

\* C34: while a symbol is seen in consecutive frames current_sig_start is the
\* frame it began in and the run is of at most 4 frames; a further frame of the
\* symbol only moves last_sig_end if it is the 2nd, 3rd or 4th of the run, and
\* resets the detector if it is the 5th.
C34_SymbolSpansFourFrames ==
    /\ []((detected # <<>> /\ current_sig_start # None) =>
             /\ last_sig_end = time_index
             /\ Cardinality(signals) = 1
             /\ RunLength \in 1 .. 4)
    /\ [][SameSymbolNext =>
             IF RunLength + 1 <= 4
             THEN /\ detected' = detected
                  /\ current_sig_start' = current_sig_start
                  /\ time_index' = time_index + 1
                  /\ last_sig_end' = time_index'
             ELSE IsResetNext]_vars

\* The second symbol of a sequence has been seen for 4 frames.
C34_Witness ==
    /\ Len(detected) = 2
    /\ current_sig_start # None
    /\ RunLength = 4
    /\ last_sig_end = time_index

\* The frames of silence, or of several signals at once, since the last frame
\* in which a symbol was taken: while detected[] holds symbols every other
\* frame moves last_sig_end or resets.
SilentFor == time_index - last_sig_end

\* C38: symbols are held through at most 8 frames of silence in a row (7 when
\* SEQUENCE_LENGTH symbols are held), and the next frame of silence leaves
\* detected[] empty: it returns the duty value when SEQUENCE_LENGTH symbols were
\* held and False when there were fewer.
C38_NineSilentFramesClear ==
    /\ [](detected # <<>> =>
             /\ SilentFor \in 0 .. 8
             /\ Len(detected) = SEQUENCE_LENGTH => SilentFor <= 7
             /\ Len(detected) <= SEQUENCE_LENGTH)
    /\ [][(/\ detected # <<>>
           /\ Cardinality(signals') # 1
           /\ SilentFor = IF Len(detected) = SEQUENCE_LENGTH THEN 7 ELSE 8) =>
             /\ IsResetNext
             /\ duty'.kind = IF Len(detected) = SEQUENCE_LENGTH THEN "duty"
                                                                ELSE "False"]_vars

\* Two symbols were held for 8 frames of silence and given up in the 9th.
C38_Witness ==
    /\ detected = <<>>
    /\ time_index = 0
    /\ Cardinality(signals) # 1
    /\ duty.kind = "False"
    /\ Len(dropped) = 2

\* An event that would bring the fan below the speed that is set, followed by
\* another change of the fan speed within 1.5 s of estimated print time.
ReducedBriefly(em) ==
    /\ em.now < em.set
    /\ em.follow.found
    /\ em.follow.time <= AHEAD_TIME

\* C35: when such an event is followed by a change back to at least the speed
\* that is set, no sequence for the reduced speed is made for the event; when
\* it is followed by a change to a still lower speed, the sequence made for the
\* event is that of the lower speed.
C35_BriefReductionSkipped ==
    \A k \in DOMAIN gcode.emissions :
        ReducedBriefly(gcode.emissions[k]) =>
            /\ gcode.emissions[k].follow.speed >= gcode.emissions[k].set =>
                  gcode.emissions[k].speed # gcode.emissions[k].now
            /\ gcode.emissions[k].follow.speed < gcode.emissions[k].now =>
                  gcode.emissions[k].speed = gcode.emissions[k].follow.speed

\* The same for a change that is also among the BUFFER_SIZE lines after the
\* event, which is as far as the main loop looks.
C35_WithinLookAhead ==
    \A k \in DOMAIN gcode.emissions :
        (/\ ReducedBriefly(gcode.emissions[k])
         /\ gcode.emissions[k].follow.lines <= gcode.max_buffer) =>
            /\ gcode.emissions[k].follow.speed >= gcode.emissions[k].set =>
                  gcode.emissions[k].speed # gcode.emissions[k].now
            /\ gcode.emissions[k].follow.speed < gcode.emissions[k].now =>
                  gcode.emissions[k].speed = gcode.emissions[k].follow.speed

\* A sequence was made for a speed that is restored within 1.5 s.
C35_ReducedSpeedEmitted ==
    \E k \in DOMAIN gcode.emissions :
        /\ ReducedBriefly(gcode.emissions[k])
        /\ gcode.emissions[k].follow.speed >= gcode.emissions[k].set
        /\ gcode.emissions[k].speed = gcode.emissions[k].now

\* The lower speed that follows was taken at once.
C35_LowerSpeedTaken ==
    \E k \in DOMAIN gcode.emissions :
        /\ ReducedBriefly(gcode.emissions[k])
        /\ gcode.emissions[k].follow.speed < gcode.emissions[k].now
        /\ gcode.emissions[k].speed = gcode.emissions[k].follow.speed

\* The lines of the input in the main buffer: all but the M300 commands put
\* in and the marker of a postponed event.
InputLines(buffer) ==
    {i \in DOMAIN buffer : buffer[i].line.kind \notin {"M300", "POSTPONED"}}

\* C36: after every pass of the main loop the main buffer holds at most
\* BUFFER_SIZE lines of the input (max_buffer, which is BUFFER_SIZE).
C36_BufferBounded ==
    Cardinality(InputLines(gcode.buffer)) <= gcode.max_buffer

\* What holds: _get_next_ahead adds up to BUFFER_SIZE lines of the look-ahead
\* buffer to the BUFFER_SIZE lines _read_next_line leaves.
C36_BufferWithinTwice ==
    Cardinality(InputLines(gcode.buffer)) <= 2 * gcode.max_buffer

\* The look-ahead buffer was emptied into a main buffer that is over its size.
C36_BufferOverSize ==
    /\ enc_pc = "main"
    /\ gcode.buffer_ahead = <<>>
    /\ Cardinality(InputLines(gcode.buffer)) > gcode.max_buffer

\* What get_next_event returns to the pass of the main loop that comes next.
NextEvent == get_next_event(gcode, gcode.max_buffer)

\* The pass that comes next takes its event for a fan command and removes the
\* last line of the buffer.
FanCommandPass ==
    /\ enc_pc = "main"
    /\ ~no_process
    /\ NextEvent.exc = ""
    /\ EventOf(NextEvent.g).fan_command

\* C37: the line the main loop removes from the buffer when it takes an event
\* for a fan command is an M106 or M107 command.
C37_RemovedLineIsFanCommand ==
    [][FanCommandPass => Last(NextEvent.g.buffer).line.kind = "FAN"]_vars

\* The lines of a sequence from its "@body" line on.
RECURSIVE FromBody(_)
FromBody(lines) ==
    IF lines = <<>> THEN <<>>
    ELSE IF Head(lines).kind = "BODY" THEN lines
    ELSE FromBody(Tail(lines))

IsAdded(line) == line.kind \in {"M300", "PARAMS"}
IsFanLine(line) == line.kind = "FAN"
NotAdded(line) == ~IsAdded(line)
NotFanLine(line) == ~IsFanLine(line)

\* The run has ended on an input with both markers, without move splitting.
DoneUnsplit == enc_pc = "done" /\ ~no_process /\ ~allow_split

\* C39: without move splitting, the output from the body marker on is, apart
\* from the line with the parameters and the M300 lines, the input from the
\* body marker on without its M106 and M107 lines, every line once and in the
\* order of the input; and the marker of a postponed event is not in it.
C39_OutputIsInputWithoutFan ==
    DoneUnsplit =>
        /\ SelectSeq(FromBody(gcode.output), NotAdded)
           = SelectSeq(FromBody(gcode.file), NotFanLine)
        /\ \A k \in DOMAIN gcode.output : gcode.output[k].kind # "POSTPONED"

\* What holds of it: the marker of a postponed event is never in the output,
\* and without move splitting no line of the input is in it twice.
C39_NoPostponedMarker ==
    /\ \A k \in DOMAIN gcode.output : gcode.output[k].kind # "POSTPONED"
    /\ \A j, k \in DOMAIN gcode.output :
          (/\ j # k
           /\ ~allow_split
           /\ ~IsAdded(gcode.output[j])
           /\ ~IsAdded(gcode.output[k])) => gcode.output[j].n # gcode.output[k].n

\* A move of the input is missing from the output of a run that has ended.
C39_MoveLost ==
    /\ DoneUnsplit
    /\ \E i \in DOMAIN gcode.file :
          /\ gcode.file[i].kind = "G1"
          /\ \A k \in DOMAIN gcode.output : gcode.output[k] # gcode.file[i]

IsStartOfSequence(line) == line.kind = "M300" /\ line.note = "start"

\* The first lines of the sequences in the output, in the order of the output.
SequencesOf(out) == SelectSeq(out, IsStartOfSequence)

\* The run has ended on an input with both markers and a sequence was made for
\* an event of the print code.
DoneWithSequences == enc_pc = "done" /\ ~no_process /\ gcode.emissions # <<>>

\* C40: when the run has ended and a sequence was made in the print code, the
\* last sequence of the output is the one for value 0, fan off.
C40_LastSequenceIsOff ==
    DoneWithSequences =>
        /\ SequencesOf(gcode.output) # <<>>
        /\ seq_to_value(Last(SequencesOf(gcode.output)).sequence) = 0

\* The end marker came while a postponed event was waiting, and the last
\* sequence of the output turns the fan off.
C40_Witness ==
    /\ DoneWithSequences
    /\ gcode.seq_postponed
    /\ set_fan_speed # 0
    /\ seq_to_value(Last(SequencesOf(gcode.output)).sequence) = 0

====
